---- MODULE Spec2Model ----
(***************************************************************************)
(* Streaming block extractor of @uicp/parser (the streaming-parser module, *)
(* kept in src/packages/tools/README.md lines 406-724) and the way         *)
(* UICPContent (src/unnamed/part_009) drives it (Spec); the block          *)
(* validator (ValidatorSpec); the definitions cache of                     *)
(* src/packages/parser/src/definitions-loader.ts (CacheSpec); the          *)
(* component registry of src/packages/parser/src/loader.ts (RegistrySpec). *)
(*                                                                         *)
(* Text is a sequence of symbols.  A symbol is one character, or a run of  *)
(* characters that the extractor treats uniformly:                         *)
(*   "BT"               the backtick character                             *)
(*   "u" "i" "c" "p"    the letters of the tag                             *)
(*   " "                a whitespace character (newline, space, tab, CR)   *)
(*   "x"                any other character                                *)
(*   "G"                the JSON text {"uid":"Alert","data":{}}            *)
(*   "Q"                the JSON text {"uid":"Card","data":{"t":"  (opens  *)
(*                      a string value)                                    *)
(*   "R"                the JSON text "}}  (closes what "Q" opened)        *)
(*   "M"                the JSON text {"uid":"Card"}  (valid JSON, no      *)
(*                      data)                                              *)
(*   "N"                the JSON text {"uid":7,"data":"x"}  (a number as   *)
(*                      uid, a string as data)                             *)
(* "G", "Q", "R", "M" and "N" contain no backtick and neither start nor    *)
(* end                                                                     *)
(* with whitespace, so every stage of the extractor handles each of their  *)
(* characters by the same branch ("any other character").                  *)
(***************************************************************************)
EXTENDS Integers, Sequences, FiniteSets, TLC

VARIABLES content, parserState, nPieces, trace,
          definitions, block, validation,
          definitionsCache, now, calls, loads, nCalls, returned,
          componentRegistry, loaders, nImports, outcome, resolved,
          mounted, definitionsProp, loadedDefinitions, fetches,
          isStreaming, lastContentRef, streamingTimeoutRef, timers, nTimers

extractorVars == <<content, parserState, nPieces, trace>>

validatorVars == <<definitions, block, validation>>

cacheVars == <<definitionsCache, now, calls, loads, nCalls, returned>>

registryVars == <<componentRegistry, loaders, nImports, outcome, resolved>>

viewVars == <<mounted, definitionsProp, loadedDefinitions, fetches,
              isStreaming, lastContentRef, streamingTimeoutRef, timers, nTimers>>

vars == <<extractorVars, validatorVars, cacheVars, registryVars, viewVars>>

(* ---------------------------- bounds ----------------------------------- *)

MaxLen == 40

MaxPieces == 4

(* the definitions cache: clock ticks, underlying loads, calls *)
MaxTime == 3

MaxLoads == 2

MaxCalls == 3

(* dynamic imports started by loadComponent *)
MaxImports == 2

(* definitions loads one UICPContent starts *)
MaxFetches == 2

(* ---------------------------- alphabet --------------------------------- *)

Tick == "BT"

Ws == " "

Fence == <<Tick, Tick, Tick>>

Tag == <<"u", "i", "c", "p">>

(* three backticks and the tag, not yet followed by whitespace *)
TaggedFence == Fence \o Tag

OpenLine == TaggedFence \o <<Ws>>

(* two well-formed blocks with different bodies *)
GoodBlock == OpenLine \o <<"Q", "R">> \o Fence

OtherBlock == OpenLine \o <<"G">> \o Fence

(* a block whose body is JSON without data *)
BadBlock == OpenLine \o <<"M">> \o Fence

(* a block whose body is a JSON object with a number as uid and a string   *)
(* as data                                                                 *)
MistypedBlock == OpenLine \o <<"N">> \o Fence

(* a JSON body whose string value holds a fence *)
FencedBody == <<"Q">> \o Fence \o <<"R">>

(* a well-formed block whose body has whitespace around the JSON text and  *)
(* one and two backticks inside its string value                           *)
TickedBlock ==
  OpenLine \o <<Ws, "Q", Tick, "x", Tick, Tick, "R", Ws>> \o Fence

(* plain text that spells the placeholder of ordinal 0: a run of           *)
(* characters other than backtick and whitespace, one symbol               *)
TokenText == <<"__UICP_BLOCK_0__">>

(* chunks a stream may deliver in one piece, besides single symbols *)
Chunks ==
  {Fence, TaggedFence, OpenLine, GoodBlock, BadBlock, FencedBody, TickedBlock}

(* chunks of a stream whose text is not what a well-behaved model writes *)
RareChunks == {MistypedBlock, TokenText}

(* ---------------------------- JSON ------------------------------------- *)

RECURSIVE TrimStart(_)
TrimStart(s) ==
  IF s # <<>> /\ Head(s) = Ws THEN TrimStart(Tail(s)) ELSE s

RECURSIVE TrimEnd(_)
TrimEnd(s) ==
  IF s # <<>> /\ s[Len(s)] = Ws THEN TrimEnd(SubSeq(s, 1, Len(s) - 1)) ELSE s

trim(s) == TrimEnd(TrimStart(s))

(* characters that may stand inside a JSON string literal *)
StringChars == {Tick, "u", "i", "c", "p", Ws, "x"}

Inner(t) == SubSeq(t, 2, Len(t) - 1)

IsJSON(t) ==
  \/ t = <<"G">>
  \/ t = <<"M">>
  \/ t = <<"N">>
  \/ /\ Len(t) >= 2
     /\ t[1] = "Q"
     /\ t[Len(t)] = "R"
     /\ \A k \in 2..(Len(t) - 1) : t[k] \in StringChars

(* JSON.parse: throws on anything that is not a JSON text *)
Parsed(throws, keys, uid, uidType, data, dataType) ==
  [throws |-> throws, keys |-> keys, uid |-> uid, uidType |-> uidType,
   data |-> data, dataType |-> dataType]

(* a number is written as its numeral; an object is the content of its     *)
(* string value, a string its characters                                   *)
JSONparse(t) ==
  IF ~IsJSON(t) THEN Parsed(TRUE, {}, "", "undefined", <<>>, "undefined")
  ELSE IF t = <<"G">> THEN Parsed(FALSE, {"uid", "data"}, "Alert", "string", <<>>, "object")
  ELSE IF t = <<"M">> THEN Parsed(FALSE, {"uid"}, "Card", "string", <<>>, "undefined")
  ELSE IF t = <<"N">> THEN Parsed(FALSE, {"uid", "data"}, "7", "number", <<"x">>, "string")
  ELSE Parsed(FALSE, {"uid", "data"}, "Card", "string", Inner(t), "object")

(* parsed.uid && parsed.data: both present and truthy (the empty string    *)
(* and the number 0 are falsy, every object is truthy)                     *)
HasShape(parsed) ==
  /\ "uid" \in parsed.keys
  /\ parsed.uid # "" /\ parsed.uid # "0"
  /\ "data" \in parsed.keys
  /\ parsed.dataType = "string" => parsed.data # <<>>

UICPBlock(parsed) == [uid |-> parsed.uid, data |-> parsed.data]

Placeholder(n) == "__UICP_BLOCK_" \o ToString(n) \o "__"

(* ---------------------------- the machine ------------------------------ *)

InternalState ==
  [stage |-> "none", buffer |-> <<>>, displayContent |-> <<>>,
   completedBlocks |-> <<>>, blockContent |-> <<>>]

createStreamingParserState ==
  [displayContent |-> <<>>, hasPendingBlock |-> FALSE, isInUICPBlock |-> FALSE,
   completedBlocks |-> <<>>, buffer |-> <<>>]

(* release the buffer and the mismatching character as display text *)
Release(s, char) ==
  [s EXCEPT !.displayContent = @ \o s.buffer \o <<char>>,
            !.buffer = <<>>,
            !.stage = "none"]

Advance(s, char, next) ==
  [s EXCEPT !.stage = next, !.buffer = Append(@, char)]

StageNone(s, char) ==
  IF char = Tick
  THEN [s EXCEPT !.stage = "backtick1", !.buffer = <<Tick>>]
  ELSE [s EXCEPT !.displayContent = Append(@, char)]

StageBacktick1(s, char) ==
  IF char = Tick THEN Advance(s, char, "backtick2") ELSE Release(s, char)

(* variant: a mismatch after two backticks shows the character only *)
StageBacktick2_DropsBuffer(s, char) ==
  IF char = Tick THEN Advance(s, char, "backtick3")
  ELSE [s EXCEPT !.displayContent = Append(@, char),
                 !.buffer = <<>>,
                 !.stage = "none"]

StageBacktick2(s, char) ==
  IF char = Tick THEN Advance(s, char, "backtick3") ELSE Release(s, char)

StageBacktick3(s, char) ==
  IF char = "u" THEN Advance(s, char, "u")
  ELSE IF char = Tick THEN [s EXCEPT !.buffer = Append(@, char)]
  ELSE Release(s, char)

StageU(s, char) ==
  IF char = "i" THEN Advance(s, char, "ui") ELSE Release(s, char)

StageUi(s, char) ==
  IF char = "c" THEN Advance(s, char, "uic") ELSE Release(s, char)

StageUic(s, char) ==
  IF char = "p" THEN Advance(s, char, "uicp") ELSE Release(s, char)

(* variant: a character other than whitespace after the tag is shown      *)
(* without the fence and the tag before it                                 *)
StageUicp_DropsTag(s, char) ==
  IF char = Ws
  THEN [s EXCEPT !.stage = "in_block", !.buffer = <<>>, !.blockContent = <<>>]
  ELSE [s EXCEPT !.displayContent = Append(@, char),
                 !.buffer = <<>>,
                 !.stage = "none"]

StageUicp(s, char) ==
  IF char = Ws
  THEN [s EXCEPT !.stage = "in_block", !.buffer = <<>>, !.blockContent = <<>>]
  ELSE Release(s, char)

StageInBlock(s, char) ==
  IF char = Tick
  THEN [s EXCEPT !.stage = "closing1"]
  ELSE [s EXCEPT !.blockContent = Append(@, char)]

StageClosing1(s, char) ==
  IF char = Tick
  THEN [s EXCEPT !.stage = "closing2"]
  ELSE [s EXCEPT !.blockContent = @ \o <<Tick, char>>, !.stage = "in_block"]

(* variant: two backticks in a body that are not followed by a third are   *)
(* left out of the body                                                    *)
StageClosing2_DropsTicks(s, char) ==
  IF char = Tick
  THEN [s EXCEPT !.stage = "closing3"]
  ELSE [s EXCEPT !.blockContent = Append(@, char), !.stage = "in_block"]

StageClosing2(s, char) ==
  IF char = Tick
  THEN [s EXCEPT !.stage = "closing3"]
  ELSE [s EXCEPT !.blockContent = @ \o <<Tick, Tick, char>>, !.stage = "in_block"]

(* the argument of JSON.parse: the accumulated body, trimmed *)
ParseInput(s) == trim(s.blockContent)

(* variant: the placeholder ordinal is the length after the push *)
CompleteBlock_OrdinalAfterPush(s) ==
  LET parsed == JSONparse(ParseInput(s))
  IN  IF ~parsed.throws /\ HasShape(parsed)
      THEN [s EXCEPT !.completedBlocks = Append(@, UICPBlock(parsed)),
                     !.displayContent = Append(@, Placeholder(Len(s.completedBlocks) + 1))]
      ELSE s

(* variant: a body that fails to parse is shown as text *)
CompleteBlock_ShowsRawBody(s) ==
  LET parsed == JSONparse(ParseInput(s))
  IN  IF ~parsed.throws /\ HasShape(parsed)
      THEN [s EXCEPT !.completedBlocks = Append(@, UICPBlock(parsed)),
                     !.displayContent = Append(@, Placeholder(Len(s.completedBlocks)))]
      ELSE [s EXCEPT !.displayContent = @ \o s.blockContent]

(* variant: the newest block is put first *)
CompleteBlock_Prepends(s) ==
  LET parsed == JSONparse(ParseInput(s))
  IN  IF ~parsed.throws /\ HasShape(parsed)
      THEN [s EXCEPT !.completedBlocks = <<UICPBlock(parsed)>> \o @,
                     !.displayContent = Append(@, Placeholder(Len(s.completedBlocks)))]
      ELSE s

(* variant: every placeholder carries ordinal 0 *)
CompleteBlock_OrdinalZero(s) ==
  LET parsed == JSONparse(ParseInput(s))
  IN  IF ~parsed.throws /\ HasShape(parsed)
      THEN [s EXCEPT !.completedBlocks = Append(@, UICPBlock(parsed)),
                     !.displayContent = Append(@, Placeholder(0))]
      ELSE s

(* variant: the placeholder replaces the text shown so far *)
CompleteBlock_ReplacesDisplay(s) ==
  LET parsed == JSONparse(ParseInput(s))
  IN  IF ~parsed.throws /\ HasShape(parsed)
      THEN [s EXCEPT !.completedBlocks = Append(@, UICPBlock(parsed)),
                     !.displayContent = <<Placeholder(Len(s.completedBlocks))>>]
      ELSE s

(* the try/catch of closing3: push the parsed block and its placeholder *)
CompleteBlock(s) ==
  LET parsed == JSONparse(ParseInput(s))
  IN  IF ~parsed.throws /\ HasShape(parsed)
      THEN [s EXCEPT !.completedBlocks = Append(@, UICPBlock(parsed)),
                     !.displayContent = Append(@, Placeholder(Len(s.completedBlocks)))]
      ELSE s

StageClosing3(s, char) ==
  LET done == [CompleteBlock(s) EXCEPT !.blockContent = <<>>,
                                       !.buffer = <<>>,
                                       !.stage = "none"]
  IN  IF char # Tick
      THEN [done EXCEPT !.displayContent = Append(@, char)]
      ELSE done

(* one iteration of the while loop *)
ProcessChar(s, char) ==
  CASE s.stage = "none"      -> StageNone(s, char)
    [] s.stage = "backtick1" -> StageBacktick1(s, char)
    [] s.stage = "backtick2" -> StageBacktick2(s, char)
    [] s.stage = "backtick3" -> StageBacktick3(s, char)
    [] s.stage = "u"         -> StageU(s, char)
    [] s.stage = "ui"        -> StageUi(s, char)
    [] s.stage = "uic"       -> StageUic(s, char)
    [] s.stage = "uicp"      -> StageUicp(s, char)
    [] s.stage = "in_block"  -> StageInBlock(s, char)
    [] s.stage = "closing1"  -> StageClosing1(s, char)
    [] s.stage = "closing2"  -> StageClosing2(s, char)
    [] s.stage = "closing3"  -> StageClosing3(s, char)

RECURSIVE Scan(_, _, _)
Scan(s, fullContent, i) ==
  IF i > Len(fullContent) THEN s
  ELSE Scan(ProcessChar(s, fullContent[i]), fullContent, i + 1)

(* the machine after the whole of fullContent, started from scratch *)
Machine(fullContent) == Scan(InternalState, fullContent, 1)

(* variant: closing3 is not counted as inside a block *)
Result_ForgetsClosing3(s) ==
  [displayContent |-> s.displayContent,
   hasPendingBlock |-> s.stage # "none",
   isInUICPBlock |-> s.stage \in {"in_block", "closing1", "closing2"},
   completedBlocks |-> s.completedBlocks,
   buffer |-> s.buffer \o s.blockContent]

Result(s) ==
  [displayContent |-> s.displayContent,
   hasPendingBlock |-> s.stage # "none",
   isInUICPBlock |-> s.stage \in {"in_block", "closing1", "closing2", "closing3"},
   completedBlocks |-> s.completedBlocks,
   buffer |-> s.buffer \o s.blockContent]

(* the machine after each prefix of the text: tr[i+1] is the state after   *)
(* i characters                                                            *)
RECURSIVE TraceFrom(_, _, _)
TraceFrom(acc, t, i) ==
  IF i > Len(t) THEN acc
  ELSE TraceFrom(Append(acc, ProcessChar(acc[Len(acc)], t[i])), t, i + 1)

Trace(t) == TraceFrom(<<InternalState>>, t, 1)

(* variant: the scan continues from the display text and blocks of the     *)
(* state passed in                                                         *)
processStreamingContent_Resumes(currentState, fullContent) ==
  Result(Scan([InternalState EXCEPT
                 !.displayContent = currentState.displayContent,
                 !.completedBlocks = currentState.completedBlocks],
              fullContent, 1))

processStreamingContent(currentState, fullContent) ==
  Result(Machine(fullContent))

parseStreamingContent(fullContent) ==
  processStreamingContent(createStreamingParserState, fullContent)

(* ---------------------------- the definitions cache -------------------- *)
(* loadDefinitionsWithCache and clearDefinitionsCache of                   *)
(* src/packages/parser/src/definitions-loader.ts.  A catalog is named by   *)
(* the number of the underlying load that fetched it; loads lists the      *)
(* source of every underlying load issued, nCalls counts the calls made    *)
(* and returned is the latest call to return with what it handed to its    *)
(* caller (for clearDefinitionsCache, which hands back nothing, its        *)
(* argument and the number of loads issued before it).                     *)

(* the empty string is a source string like any other *)
EmptySource == ""

Sources == {"a.json", "b.json", EmptySource}

(* the source argument when it is omitted *)
Undefined == "undefined"

(* the source argument when it is a Definitions object *)
ObjectSource == "object"

(* a ttl argument, in clock ticks *)
ShortTtl == 2

Ttls == {0, ShortTtl}

Callers == {1, 2}

NoEntry == [has |-> FALSE, data |-> 0, timestamp |-> 0]

Entry(data, timestamp) == [has |-> TRUE, data |-> data, timestamp |-> timestamp]

IdleCall == [pc |-> "idle", source |-> "", ttl |-> 0, load |-> 0]

Return(c, source, ttl, kind, data, cached) ==
  [caller |-> c, source |-> source, ttl |-> ttl, kind |-> kind, data |-> data,
   cached |-> cached]

NoReturn == Return(0, "", 0, "none", 0, FALSE)

(* variant: an entry counts as fresh whatever its age *)
Fresh_IgnoresTtl(cached, ttl, t) == cached.has

(* variant: an entry exactly ttl old still counts as fresh *)
Fresh_AtMostTtl(cached, ttl, t) == cached.has /\ t - cached.timestamp <= ttl

(* cached && Date.now() - cached.timestamp < ttl *)
Fresh(cached, ttl, t) == cached.has /\ t - cached.timestamp < ttl

CacheIdle ==
  /\ definitionsCache = [s \in Sources |-> NoEntry]
  /\ now = 0
  /\ calls = [c \in Callers |-> IdleCall]
  /\ loads = <<>>
  /\ nCalls = 0
  /\ returned = NoReturn

(* loadDefinitionsWithCache(source, ttl) up to its return or its await:    *)
(* a fresh entry is returned at once, otherwise the underlying load starts *)
loadDefinitionsWithCache(c, source, ttl) ==
  /\ calls[c].pc = "idle"
  /\ nCalls < MaxCalls
  /\ nCalls' = nCalls + 1
  /\ IF Fresh(definitionsCache[source], ttl, now)
     THEN /\ returned' = Return(c, source, ttl, "data",
                                definitionsCache[source].data, TRUE)
          /\ UNCHANGED <<calls, loads>>
     ELSE /\ Len(loads) < MaxLoads
          /\ loads' = Append(loads, source)
          /\ calls' = [calls EXCEPT ![c] =
                         [pc |-> "loading", source |-> source, ttl |-> ttl,
                          load |-> Len(loads')]]
          /\ UNCHANGED returned
  /\ UNCHANGED <<definitionsCache, now>>

(* loadDefinitionsWithCache(object): the object is returned, the cache is  *)
(* not consulted                                                           *)
loadDefinitionsObject(c) ==
  /\ calls[c].pc = "idle"
  /\ nCalls < MaxCalls
  /\ nCalls' = nCalls + 1
  /\ returned' = Return(c, ObjectSource, 0, "data", 0, FALSE)
  /\ UNCHANGED <<definitionsCache, now, calls, loads>>

(* the awaited load resolves: the catalog is stored with the current time  *)
(* and returned                                                            *)
LoadResolves(c) ==
  /\ calls[c].pc = "loading"
  /\ definitionsCache' =
       [definitionsCache EXCEPT ![calls[c].source] = Entry(calls[c].load, now)]
  /\ returned' = Return(c, calls[c].source, calls[c].ttl, "data", calls[c].load, FALSE)
  /\ calls' = [calls EXCEPT ![c] = IdleCall]
  /\ UNCHANGED <<now, loads, nCalls>>

(* variant: the failed load leaves an entry without a catalog behind *)
LoadRejects_StoresFailure(c) ==
  /\ calls[c].pc = "loading"
  /\ definitionsCache' = [definitionsCache EXCEPT ![calls[c].source] = Entry(0, now)]
  /\ returned' = Return(c, calls[c].source, calls[c].ttl, "error", 0, FALSE)
  /\ calls' = [calls EXCEPT ![c] = IdleCall]
  /\ UNCHANGED <<now, loads, nCalls>>

(* the awaited load rejects: the error reaches the caller *)
LoadRejects(c) ==
  /\ calls[c].pc = "loading"
  /\ returned' = Return(c, calls[c].source, calls[c].ttl, "error", 0, FALSE)
  /\ calls' = [calls EXCEPT ![c] = IdleCall]
  /\ UNCHANGED <<definitionsCache, now, loads, nCalls>>

(* if (source): undefined and the empty string are falsy *)
Truthy(source) == source # Undefined /\ source # ""

(* definitionsCache.delete(source) *)
Delete(cache, source) == [cache EXCEPT ![source] = NoEntry]

(* definitionsCache.clear() *)
Clear(cache) == [s \in DOMAIN cache |-> NoEntry]

(* clearDefinitionsCache(source) and clearDefinitionsCache(): one entry is *)
(* deleted when the argument is truthy, all are otherwise                  *)
clearDefinitionsCache(source) ==
  /\ definitionsCache' = IF Truthy(source)
                         THEN Delete(definitionsCache, source)
                         ELSE Clear(definitionsCache)
  /\ returned' = Return(0, source, 0, "void", Len(loads), FALSE)
  /\ UNCHANGED <<now, calls, loads, nCalls>>

(* Date.now() advances *)
ClockTick ==
  /\ now < MaxTime
  /\ now' = now + 1
  /\ UNCHANGED <<definitionsCache, calls, loads, nCalls, returned>>

(* ---------------------------- the component registry ------------------- *)
(* registerComponent, getComponent, getRegisteredComponents, clearRegistry *)
(* and loadComponent of src/packages/parser/src/loader.ts.  nImports       *)
(* counts the dynamic imports started, outcome is the latest call to       *)
(* return: the operation, its uid argument and the value it returned (for  *)
(* registerComponent the component it was given), and resolved remembers   *)
(* the first successful import since the latest clearRegistry call: its    *)
(* uid and the component it registered.                                    *)

Uids == {"Card", "Alert", ""}

(* component handles *)
Components == {"f", "g"}

(* the value of a missing map entry or export *)
NoComponent == "undefined"

(* what loadComponent returns when it fails *)
Null == "null"

(* an exported value that is neither a function nor an object *)
Text == "text"

Loaders == {1, 2}

(* a path is a sequence of "/" separators, names and extensions *)
Extensions == {".tsx"}

AbsolutePath == <<"/", "lib", "/", "Card", ".tsx">>

RelativePath == <<"Panel", ".tsx">>

ComponentPaths == {AbsolutePath, RelativePath}

DefaultBasePath == <<"/", "components", "/", "uicp">>

BasePaths == {DefaultBasePath, <<"/", "ui">>}

(* componentPath.startsWith('/') ? componentPath : basePath/componentPath *)
FullPath(componentPath, basePath) ==
  IF Len(componentPath) > 0 /\ componentPath[1] = "/"
  THEN componentPath
  ELSE basePath \o <<"/">> \o componentPath

(* componentPath.split('/').pop() *)
RECURSIVE LastSegment(_)
LastSegment(path) ==
  IF \A i \in 1..Len(path) : path[i] # "/"
  THEN path
  ELSE LastSegment(Tail(path))

(* .replace(/\.\w+$/, '') *)
WithoutExtension(segment) ==
  IF Len(segment) > 0 /\ segment[Len(segment)] \in Extensions
  THEN SubSeq(segment, 1, Len(segment) - 1)
  ELSE segment

RECURSIVE Join(_)
Join(segment) ==
  IF segment = <<>> THEN "" ELSE Head(segment) \o Join(Tail(segment))

(* the export name tried third *)
FileName(componentPath) == Join(WithoutExtension(LastSegment(componentPath)))

(* a module is the sequence of its exports *)
Export(name, value) == [name |-> name, value |-> value]

Modules ==
  { <<Export("default", "f")>>,
    <<Export("Card", "g")>>,
    <<Export("Panel", "f")>>,
    <<Export("version", Text), Export("View", "g")>>,
    <<Export("default", Text)>>,
    <<Export("version", Text)>>,
    <<>> }

(* module[name] *)
Member(module, name) ==
  IF \E i \in 1..Len(module) : module[i].name = name
  THEN module[CHOOSE i \in 1..Len(module) : module[i].name = name].value
  ELSE NoComponent

(* Object.values(module).find(function or object) *)
RECURSIVE FindComponentExport(_)
FindComponentExport(module) ==
  IF module = <<>> THEN NoComponent
  ELSE IF Head(module).value \in Components THEN Head(module).value
  ELSE FindComponentExport(Tail(module))

(* undefined and the empty string are falsy *)
IsTruthy(value) == value # NoComponent /\ value # ""

(* module.default || module[uid] || module[file name] || first function or *)
(* object export                                                           *)
SelectExport(module, uid, componentPath) ==
  IF IsTruthy(Member(module, "default")) THEN Member(module, "default")
  ELSE IF IsTruthy(Member(module, uid)) THEN Member(module, uid)
  ELSE IF IsTruthy(Member(module, FileName(componentPath)))
       THEN Member(module, FileName(componentPath))
  ELSE FindComponentExport(module)

IdleLoader == [pc |-> "idle", uid |-> "", componentPath |-> <<>>, fullPath |-> <<>>]

Outcome(op, uid, value) == [op |-> op, uid |-> uid, value |-> value]

NoOutcome == Outcome("none", "", NoComponent)

Resolved(uid, component) == [uid |-> uid, component |-> component]

NothingResolved == Resolved("", NoComponent)

RegistryIdle ==
  /\ componentRegistry = [uid \in Uids |-> NoComponent]
  /\ loaders = [l \in Loaders |-> IdleLoader]
  /\ nImports = 0
  /\ outcome = NoOutcome
  /\ resolved = NothingResolved

(* componentRegistry.get(uid) *)
getComponent(uid) == componentRegistry[uid]

(* Array.from(componentRegistry.keys()) *)
getRegisteredComponents == {uid \in Uids : componentRegistry[uid] # NoComponent}

(* componentRegistry.set(uid, component) *)
Registered(registry, uid, component) == [registry EXCEPT ![uid] = component]

(* variant: an existing entry is not overwritten *)
registerComponent_KeepsExisting(uid, component) ==
  /\ componentRegistry' = IF componentRegistry[uid] = NoComponent
                          THEN Registered(componentRegistry, uid, component)
                          ELSE componentRegistry
  /\ outcome' = Outcome("registerComponent", uid, component)
  /\ UNCHANGED <<loaders, nImports, resolved>>

registerComponent(uid, component) ==
  /\ componentRegistry' = Registered(componentRegistry, uid, component)
  /\ outcome' = Outcome("registerComponent", uid, component)
  /\ UNCHANGED <<loaders, nImports, resolved>>

(* clearRegistry(uid) and clearRegistry(): one entry is deleted when the   *)
(* argument is truthy, all are otherwise                                   *)
clearRegistry(uid) ==
  /\ componentRegistry' = IF Truthy(uid)
                          THEN [componentRegistry EXCEPT ![uid] = NoComponent]
                          ELSE [u \in Uids |-> NoComponent]
  /\ outcome' = Outcome("clearRegistry", uid, NoComponent)
  /\ resolved' = NothingResolved
  /\ UNCHANGED <<loaders, nImports>>

(* variant: the registry is not consulted, every call imports *)
loadComponent_AlwaysImports(l, uid, componentPath, basePath) ==
  /\ loaders[l].pc = "idle"
  /\ nImports < MaxImports
  /\ nImports' = nImports + 1
  /\ loaders' = [loaders EXCEPT ![l] =
                   [pc |-> "importing", uid |-> uid,
                    componentPath |-> componentPath,
                    fullPath |-> FullPath(componentPath, basePath)]]
  /\ UNCHANGED <<componentRegistry, outcome, resolved>>

(* loadComponent(uid, componentPath, basePath) up to its return or its     *)
(* await: a registered component is returned at once, otherwise the import *)
(* of the full path starts                                                 *)
loadComponent(l, uid, componentPath, basePath) ==
  /\ loaders[l].pc = "idle"
  /\ IF IsTruthy(getComponent(uid))
     THEN /\ outcome' = Outcome("loadComponent", uid, getComponent(uid))
          /\ UNCHANGED <<loaders, nImports>>
     ELSE /\ nImports < MaxImports
          /\ nImports' = nImports + 1
          /\ loaders' = [loaders EXCEPT ![l] =
                           [pc |-> "importing", uid |-> uid,
                            componentPath |-> componentPath,
                            fullPath |-> FullPath(componentPath, basePath)]]
          /\ UNCHANGED outcome
  /\ UNCHANGED <<componentRegistry, resolved>>

(* variant: the component found is returned without being registered *)
ImportResolves_ForgetsComponent(l, module) ==
  /\ loaders[l].pc = "importing"
  /\ LET uid == loaders[l].uid
         component == SelectExport(module, uid, loaders[l].componentPath)
     IN  /\ outcome' = Outcome("loadComponent", uid,
                               IF IsTruthy(component) THEN component ELSE Null)
         /\ resolved' = IF IsTruthy(component) /\ resolved = NothingResolved
                        THEN Resolved(uid, component)
                        ELSE resolved
  /\ loaders' = [loaders EXCEPT ![l] = IdleLoader]
  /\ UNCHANGED <<componentRegistry, nImports>>

(* the awaited import resolves to a module: its component is registered    *)
(* and returned, or null is returned when it has none                      *)
ImportResolves(l, module) ==
  /\ loaders[l].pc = "importing"
  /\ LET uid == loaders[l].uid
         component == SelectExport(module, uid, loaders[l].componentPath)
     IN  IF IsTruthy(component)
         THEN /\ componentRegistry' = Registered(componentRegistry, uid, component)
              /\ outcome' = Outcome("loadComponent", uid, component)
              /\ resolved' = IF resolved = NothingResolved
                             THEN Resolved(uid, component)
                             ELSE resolved
         ELSE /\ outcome' = Outcome("loadComponent", uid, Null)
              /\ UNCHANGED <<componentRegistry, resolved>>
  /\ loaders' = [loaders EXCEPT ![l] = IdleLoader]
  /\ UNCHANGED nImports

(* variant: the error of the import reaches the caller *)
ImportRejects_Throws(l) ==
  /\ loaders[l].pc = "importing"
  /\ outcome' = Outcome("loadComponent throws", loaders[l].uid, NoComponent)
  /\ loaders' = [loaders EXCEPT ![l] = IdleLoader]
  /\ UNCHANGED <<componentRegistry, nImports, resolved>>

(* the awaited import rejects: the error is caught and null is returned *)
ImportRejects(l) ==
  /\ loaders[l].pc = "importing"
  /\ outcome' = Outcome("loadComponent", loaders[l].uid, Null)
  /\ loaders' = [loaders EXCEPT ![l] = IdleLoader]
  /\ UNCHANGED <<componentRegistry, nImports, resolved>>

(* ---------------------------- the validator ---------------------------- *)
(* validateUICPBlock of @uicp/parser.  index.ts exports it from            *)
(* ./validator, which is not among the sources; it is modelled from        *)
(* section 4.2 of the specification.                                       *)

NoInputs == [n \in {} |-> 0]

(* runtime values: kind is the runtime type, val the literal, props the    *)
(* members of an object                                                    *)
Str(v) == [kind |-> "string", val |-> v, props |-> NoInputs]

Num(v) == [kind |-> "number", val |-> v, props |-> NoInputs]

Bool(v) == [kind |-> "boolean", val |-> v, props |-> NoInputs]

Arr == [kind |-> "array", val |-> "", props |-> NoInputs]

Obj(props) == [kind |-> "object", val |-> "", props |-> props]

Literal(v) == <<v.kind, v.val>>

(* an InputFieldSpec *)
FieldSpec(type, required, hasDefault, enumValues, properties) ==
  [type |-> type, required |-> required, hasDefault |-> hasDefault,
   hasEnum |-> enumValues # {}, enumValues |-> enumValues,
   properties |-> properties]

(* the order in which the fields of a schema are visited *)
FieldOrder == <<"title", "type", "inner">>

Failure(kind, field, known) == [kind |-> kind, field |-> field, known |-> known]

(* exact primitive kind for string, number, boolean; any array for array;  *)
(* any map-like value for object                                           *)
TypeMatches(spec, v) == v.kind = spec.type

RECURSIVE checkInputs(_, _, _, _)

(* variant: a required field that is absent fails even when the schema     *)
(* gives it a default                                                      *)
checkField_IgnoresDefault(spec, data, name, path) ==
  IF name \notin DOMAIN data
  THEN IF spec.required
       THEN <<Failure("MissingField", path \o name, <<>>)>>
       ELSE <<>>
  ELSE LET v == data[name]
       IN  (IF TypeMatches(spec, v) THEN <<>>
            ELSE <<Failure("TypeMismatch", path \o name, <<>>)>>)
           \o (IF spec.type = "object" /\ v.kind = "object"
               THEN checkInputs(spec.properties, v.props, path \o name \o ".", 1)
               ELSE <<>>)
           \o (IF spec.hasEnum /\ Literal(v) \notin spec.enumValues
               THEN <<Failure("InvalidEnumValue", path \o name, <<>>)>>
               ELSE <<>>)

(* the failures of one schema field against the payload *)
checkField(spec, data, name, path) ==
  IF name \notin DOMAIN data
  THEN IF spec.required /\ ~spec.hasDefault
       THEN <<Failure("MissingField", path \o name, <<>>)>>
       ELSE <<>>
  ELSE LET v == data[name]
       IN  (IF TypeMatches(spec, v) THEN <<>>
            ELSE <<Failure("TypeMismatch", path \o name, <<>>)>>)
           \o (IF spec.type = "object" /\ v.kind = "object"
               THEN checkInputs(spec.properties, v.props, path \o name \o ".", 1)
               ELSE <<>>)
           \o (IF spec.hasEnum /\ Literal(v) \notin spec.enumValues
               THEN <<Failure("InvalidEnumValue", path \o name, <<>>)>>
               ELSE <<>>)

RECURSIVE checkInputs_StopsAtFirst(_, _, _, _)

(* variant: validation stops at the first failure *)
checkInputs_StopsAtFirst(inputs, data, path, k) ==
  IF k > Len(FieldOrder) THEN <<>>
  ELSE LET here == IF FieldOrder[k] \in DOMAIN inputs
                   THEN checkField(inputs[FieldOrder[k]], data, FieldOrder[k], path)
                   ELSE <<>>
       IN  IF here # <<>> THEN <<Head(here)>>
           ELSE checkInputs_StopsAtFirst(inputs, data, path, k + 1)

(* the failures of the schema fields FieldOrder[k], FieldOrder[k+1], ...   *)
checkInputs(inputs, data, path, k) ==
  IF k > Len(FieldOrder) THEN <<>>
  ELSE (IF FieldOrder[k] \in DOMAIN inputs
        THEN checkField(inputs[FieldOrder[k]], data, FieldOrder[k], path)
        ELSE <<>>)
       \o checkInputs(inputs, data, path, k + 1)

(* ids of all components of the catalog, in catalog order *)
KnownIds(defs) == [k \in 1..Len(defs.components) |-> defs.components[k].uid]

HasComponent(defs, uid) == \E k \in 1..Len(defs.components) : defs.components[k].uid = uid

FindComponent(defs, uid) ==
  defs.components[CHOOSE k \in 1..Len(defs.components) :
                    /\ defs.components[k].uid = uid
                    /\ \A j \in 1..(k - 1) : defs.components[j].uid # uid]

ValidationResult(errors) == [valid |-> errors = <<>>, errors |-> errors]

(* variant: the unknown-component failure does not list the known ids *)
validateUICPBlock_OmitsKnownIds(b, defs) ==
  IF ~HasComponent(defs, b.uid)
  THEN ValidationResult(<<Failure("UnknownComponent", b.uid, <<>>)>>)
  ELSE ValidationResult(checkInputs(FindComponent(defs, b.uid).inputs, b.data, "", 1))

validateUICPBlock(b, defs) ==
  IF ~HasComponent(defs, b.uid)
  THEN ValidationResult(<<Failure("UnknownComponent", b.uid, KnownIds(defs))>>)
  ELSE ValidationResult(checkInputs(FindComponent(defs, b.uid).inputs, b.data, "", 1))

(* ---- the catalogs and blocks validation is applied to ---- *)

EnumAB == {Literal(Str("a")), Literal(Str("b"))}

InnerInputs == [n \in {"inner"} |-> FieldSpec("string", TRUE, FALSE, {}, NoInputs)]

TitleSpecs ==
  {FieldSpec("string", TRUE, FALSE, {}, NoInputs),
   FieldSpec("string", TRUE, TRUE, {}, NoInputs),
   FieldSpec("string", FALSE, FALSE, {}, NoInputs),
   FieldSpec("string", TRUE, FALSE, EnumAB, NoInputs),
   FieldSpec("number", TRUE, FALSE, {}, NoInputs),
   FieldSpec("boolean", FALSE, TRUE, {}, NoInputs),
   FieldSpec("array", TRUE, FALSE, {}, NoInputs),
   FieldSpec("object", TRUE, FALSE, {}, InnerInputs)}

TypeSpecs ==
  {FieldSpec("string", TRUE, FALSE, EnumAB, NoInputs),
   FieldSpec("string", FALSE, FALSE, EnumAB, NoInputs),
   FieldSpec("number", TRUE, TRUE, {}, NoInputs),
   FieldSpec("string", TRUE, FALSE, {}, NoInputs)}

Schemas ==
  [{"title"} -> TitleSpecs] \cup
  {[n \in {"title", "type"} |-> IF n = "title" THEN a ELSE b] :
     a \in TitleSpecs, b \in TypeSpecs}

Component(uid, inputs) == [uid |-> uid, inputs |-> inputs]

AlertInputs == [n \in {"type"} |-> FieldSpec("string", TRUE, FALSE, EnumAB, NoInputs)]

Catalogs ==
  {[components |-> <<>>]} \cup
  {[components |-> <<Component("SimpleCard", sc)>>] : sc \in Schemas} \cup
  {[components |-> <<Component("SimpleCard", sc), Component("Alert", AlertInputs)>>] :
     sc \in Schemas}

TitleValues ==
  {Str("a"), Str("z"), Num("1"), Bool("true"), Arr, Obj(NoInputs),
   Obj([n \in {"inner"} |-> Str("a")]), Obj([n \in {"inner"} |-> Num("1")])}

TypeValues == {Str("a"), Str("z"), Num("1")}

ExtraValues == {Str("a")}

ValuesOf(n) ==
  IF n = "title" THEN TitleValues
  ELSE IF n = "type" THEN TypeValues ELSE ExtraValues

(* a payload gives each of title, type, extra a value or leaves it out *)
Payloads ==
  UNION {{d \in [D -> TitleValues] : \A n \in D : d[n] \in ValuesOf(n)} :
           D \in SUBSET {"title", "type", "extra"}}

Blocks == {[uid |-> u, data |-> d] : u \in {"SimpleCard", "Alert", "UnknownCard"}, d \in Payloads}

NoDefinitions == [components |-> <<>>]

NoBlock == [uid |-> "", data |-> NoInputs]

NoValidation == [valid |-> FALSE, errors |-> <<>>]

ValidatorIdle ==
  /\ definitions = NoDefinitions
  /\ block = NoBlock
  /\ validation = NoValidation

ExtractorIdle ==
  /\ content = <<>>
  /\ parserState = createStreamingParserState
  /\ nPieces = 0
  /\ trace = <<InternalState>>

(* no definitions: loadedDefinitions is null *)
NoCatalog == [has |-> FALSE, source |-> "", load |-> 0]

(* no UICPContent is mounted *)
ViewIdle ==
  /\ mounted = FALSE
  /\ definitionsProp = [type |-> "object", source |-> "inline"]
  /\ loadedDefinitions = NoCatalog
  /\ fetches = <<>>
  /\ isStreaming = FALSE
  /\ lastContentRef = <<>>
  /\ streamingTimeoutRef = 0
  /\ timers = {}
  /\ nTimers = 0

ValidatorInit ==
  /\ definitions \in Catalogs
  /\ block \in Blocks
  /\ validation = NoValidation
  /\ ExtractorIdle
  /\ CacheIdle
  /\ RegistryIdle
  /\ ViewIdle

(* the block is validated against the catalog *)
Validate ==
  /\ validation = NoValidation
  /\ validation' = validateUICPBlock(block, definitions)
  /\ UNCHANGED <<definitions, block, extractorVars, cacheVars, registryVars, viewVars>>

ValidatorNext == Validate

ValidatorSpec == ValidatorInit /\ [][ValidatorNext]_vars

(* ---------------------------- the cache in use ------------------------- *)

CacheInit ==
  /\ CacheIdle
  /\ ExtractorIdle
  /\ ValidatorIdle
  /\ RegistryIdle
  /\ ViewIdle

OthersIdle == UNCHANGED <<extractorVars, validatorVars, registryVars, viewVars>>

CallWithCache ==
  /\ \E c \in Callers, source \in Sources, ttl \in Ttls :
       loadDefinitionsWithCache(c, source, ttl)
  /\ OthersIdle

CallWithObject == (\E c \in Callers : loadDefinitionsObject(c)) /\ OthersIdle

Resolve == (\E c \in Callers : LoadResolves(c)) /\ OthersIdle

Reject == (\E c \in Callers : LoadRejects(c)) /\ OthersIdle

ClearOne == (\E source \in Sources : clearDefinitionsCache(source)) /\ OthersIdle

ClearAll == clearDefinitionsCache(Undefined) /\ OthersIdle

TimePasses == ClockTick /\ OthersIdle

CacheNext ==
  \/ CallWithCache
  \/ CallWithObject
  \/ Resolve
  \/ Reject
  \/ ClearOne
  \/ ClearAll
  \/ TimePasses

CacheSpec == CacheInit /\ [][CacheNext]_vars

(* ---------------------------- the registry in use ---------------------- *)

RegistryInit ==
  /\ RegistryIdle
  /\ ExtractorIdle
  /\ ValidatorIdle
  /\ CacheIdle
  /\ ViewIdle

RestIdle == UNCHANGED <<extractorVars, validatorVars, cacheVars, viewVars>>

Register ==
  /\ \E uid \in Uids, component \in Components : registerComponent(uid, component)
  /\ RestIdle

ClearEntry == (\E uid \in Uids : clearRegistry(uid)) /\ RestIdle

ClearRegistry == clearRegistry(Undefined) /\ RestIdle

Load ==
  /\ \E l \in Loaders, uid \in Uids, componentPath \in ComponentPaths,
        basePath \in BasePaths :
       loadComponent(l, uid, componentPath, basePath)
  /\ RestIdle

Imported ==
  /\ \E l \in Loaders, module \in Modules : ImportResolves(l, module)
  /\ RestIdle

ImportFailed == (\E l \in Loaders : ImportRejects(l)) /\ RestIdle

RegistryNext ==
  \/ Register
  \/ ClearEntry
  \/ ClearRegistry
  \/ Load
  \/ Imported
  \/ ImportFailed

RegistrySpec == RegistryInit /\ [][RegistryNext]_vars

(* ---------------------------- the stream ------------------------------- *)

Init ==
  /\ content = <<>>
  /\ parserState = parseStreamingContent(<<>>)
  /\ nPieces = 0
  /\ trace = Trace(<<>>)
  /\ ValidatorIdle
  /\ CacheIdle
  /\ RegistryIdle
  /\ ViewIdle

(* the text so far, longer by chunk, is parsed again (useMemo on content); *)
(* trace records the states the scan of the text passes through, which for *)
(* the longer text are those of the shorter text followed by one state per *)
(* new character                                                           *)
Reparse(chunk) ==
  /\ nPieces < MaxPieces
  /\ Len(content) + Len(chunk) <= MaxLen
  /\ nPieces' = nPieces + 1
  /\ content' = content \o chunk
  /\ parserState' = parseStreamingContent(content')
  /\ trace' = TraceFrom(trace, content', Len(content) + 1)

(* new text arrives at the extractor *)
Deliver(chunk) ==
  /\ Reparse(chunk)
  /\ UNCHANGED <<validatorVars, cacheVars, registryVars, viewVars>>

(* The characters a stage tells apart: those its conditions name, and "x"  *)
(* for every other character.  Inside a body every symbol that decides the *)
(* JSON parse is told apart.                                               *)
Distinguished(stage) ==
  CASE stage \in {"none", "backtick1", "backtick2", "closing3"} -> {Tick, "x"}
    [] stage = "backtick3" -> {Tick, "u", "x"}
    [] stage = "u"         -> {Tick, "i", "x"}
    [] stage = "ui"        -> {Tick, "c", "x"}
    [] stage = "uic"       -> {Tick, "p", "x"}
    [] stage = "uicp"      -> {Tick, Ws, "x"}
    [] stage \in {"in_block", "closing1", "closing2"} ->
         {Tick, Ws, "x", "G", "Q", "R"}

(* one character arrives; of the characters the current stage treats alike *)
(* one representative is delivered                                         *)
ReceiveChar ==
  \E c \in Distinguished(trace[Len(trace)].stage) : Deliver(<<c>>)

(* several characters arrive at once *)
ReceiveChunk ==
  \E chunk \in Chunks : Deliver(chunk)

Next == ReceiveChar \/ ReceiveChunk

Spec == Init /\ [][Next]_vars

(* the stream when its text may also hold mistyped bodies and text that    *)
(* spells a placeholder                                                    *)
ReceiveRareChunk ==
  \E chunk \in RareChunks : Deliver(chunk)

WideNext == ReceiveChar \/ ReceiveChunk \/ ReceiveRareChunk

WideSpec == Init /\ [][WideNext]_vars

(* ---------------------------- UICPContent ------------------------------ *)

(* The React component: its props content and definitions, its state       *)
(* loadedDefinitions and isStreaming, its refs, the timers it has set and  *)
(* the definitions loads it has started.  A commit (render, cleanup of the *)
(* previous effect, the new effect) is one step.                           *)

(* the definitions prop: a source string or a Definitions object *)
StringProp(source) == [type |-> "string", source |-> source]

ObjectProp == [type |-> "object", source |-> "inline"]

DefinitionsProps == {ObjectProp, StringProp("a.json"), StringProp("b.json")}

(* a catalog: where it came from and which load fetched it *)
Catalog(source, load) == [has |-> TRUE, source |-> source, load |-> load]

(* the component ids a catalog describes *)
Describes(source) ==
  CASE source = "b.json" -> {"Alert"}
    [] OTHER -> {"Card", "Alert"}

(* a load started by the definitions effect, with the mounted flag of the  *)
(* effect run that started it                                              *)
Fetch(source, isMounted, pc) == [source |-> source, mounted |-> isMounted, pc |-> pc]

(* variant: the cleanup leaves the flags of earlier effect runs alone *)
DefinitionsCleanup_KeepsMounted(fs) == fs

(* return () => { mounted = false; } *)
DefinitionsCleanup(fs) == [i \in DOMAIN fs |-> [fs[i] EXCEPT !.mounted = FALSE]]

(* typeof definitions === 'object' ? definitions : null, and what          *)
(* setLoadedDefinitions(definitions) stores                                *)
InitialDefinitions(d) == IF d.type = "object" THEN Catalog(d.source, 0) ELSE NoCatalog

(* the definitions effect: a string starts a load, an object is stored *)
DefinitionsEffect(fs, d) ==
  IF d.type = "string" THEN Append(fs, Fetch(d.source, TRUE, "pending")) ELSE fs

(* variant: a pending timer is left to fire when a new one is set *)
ClearTimeout_Keeps(ts, ref) == ts

(* clearTimeout(streamingTimeoutRef.current), when the ref is set *)
ClearTimeout(ts, ref) == ts \ {ref}

ViewInit ==
  /\ content = <<>>
  /\ parserState = parseStreamingContent(<<>>)
  /\ nPieces = 0
  /\ trace = Trace(<<>>)
  /\ mounted = TRUE
  /\ definitionsProp \in DefinitionsProps
  /\ loadedDefinitions = InitialDefinitions(definitionsProp)
  /\ fetches = DefinitionsEffect(<<>>, definitionsProp)
  /\ isStreaming = FALSE
  /\ lastContentRef = content
  /\ streamingTimeoutRef = 0
  /\ timers = {}
  /\ nTimers = 0
  /\ componentRegistry \in {[uid \in Uids |-> NoComponent],
                            [uid \in Uids |-> IF uid = "Card" THEN "f" ELSE NoComponent]}
  /\ loaders = [l \in Loaders |-> IdleLoader]
  /\ nImports = 0
  /\ outcome = NoOutcome
  /\ resolved = NothingResolved
  /\ ValidatorIdle
  /\ CacheIdle

(* the content prop changes: the text is parsed again, the cleanup of the  *)
(* previous streaming effect clears its timer and the effect restarts it   *)
ContentChanges(chunk) ==
  /\ mounted
  /\ Reparse(chunk)
  /\ IF content' # lastContentRef
       THEN /\ lastContentRef' = content'
            /\ isStreaming' = TRUE
            /\ nTimers' = nTimers + 1
            /\ streamingTimeoutRef' = nTimers'
            /\ timers' = ClearTimeout(ClearTimeout(timers, streamingTimeoutRef),
                                      streamingTimeoutRef) \cup {nTimers'}
       ELSE /\ timers' = ClearTimeout(timers, streamingTimeoutRef)
            /\ UNCHANGED <<lastContentRef, isStreaming, nTimers, streamingTimeoutRef>>
  /\ UNCHANGED <<mounted, definitionsProp, loadedDefinitions, fetches>>
  /\ UNCHANGED <<validatorVars, cacheVars, registryVars>>

(* 150 ms after it was set a pending timer fires: setIsStreaming(false) *)
TimerFires(t) ==
  /\ t \in timers
  /\ timers' = timers \ {t}
  /\ isStreaming' = FALSE
  /\ UNCHANGED <<mounted, definitionsProp, loadedDefinitions, fetches, lastContentRef,
                 streamingTimeoutRef, nTimers>>
  /\ UNCHANGED <<extractorVars, validatorVars, cacheVars, registryVars>>

(* the definitions prop changes: cleanup of the previous definitions       *)
(* effect, then the effect for the new value                               *)
DefinitionsChange(d) ==
  /\ mounted
  /\ d # definitionsProp
  /\ d.type = "string" => Len(fetches) < MaxFetches
  /\ definitionsProp' = d
  /\ fetches' = DefinitionsEffect(DefinitionsCleanup(fetches), d)
  /\ loadedDefinitions' = IF d.type = "string" THEN loadedDefinitions ELSE Catalog(d.source, 0)
  /\ UNCHANGED <<mounted, isStreaming, lastContentRef, streamingTimeoutRef, timers, nTimers>>
  /\ UNCHANGED <<extractorVars, validatorVars, cacheVars, registryVars>>

(* loadDefinitionsWithCache(definitions) resolves:                         *)
(* if (mounted) setLoadedDefinitions(defs)                                 *)
FetchResolves(i) ==
  /\ i \in DOMAIN fetches
  /\ fetches[i].pc = "pending"
  /\ fetches' = [fetches EXCEPT ![i].pc = "settled"]
  /\ loadedDefinitions' = IF fetches[i].mounted THEN Catalog(fetches[i].source, i)
                                                ELSE loadedDefinitions
  /\ UNCHANGED <<mounted, definitionsProp, isStreaming, lastContentRef,
                 streamingTimeoutRef, timers, nTimers>>
  /\ UNCHANGED <<extractorVars, validatorVars, cacheVars, registryVars>>

(* the load rejects: the promise has no catch, nothing is stored *)
FetchRejects(i) ==
  /\ i \in DOMAIN fetches
  /\ fetches[i].pc = "pending"
  /\ fetches' = [fetches EXCEPT ![i].pc = "settled"]
  /\ UNCHANGED <<mounted, definitionsProp, loadedDefinitions, isStreaming, lastContentRef,
                 streamingTimeoutRef, timers, nTimers>>
  /\ UNCHANGED <<extractorVars, validatorVars, cacheVars, registryVars>>

(* the component unmounts: both effects' cleanups run *)
Unmounts ==
  /\ mounted
  /\ mounted' = FALSE
  /\ timers' = ClearTimeout(timers, streamingTimeoutRef)
  /\ fetches' = DefinitionsCleanup(fetches)
  /\ UNCHANGED <<definitionsProp, loadedDefinitions, isStreaming, lastContentRef,
                 streamingTimeoutRef, nTimers>>
  /\ UNCHANGED <<extractorVars, validatorVars, cacheVars, registryVars>>

(* componentRegistry.get(uid) for any string *)
Lookup(uid) == IF uid \in DOMAIN componentRegistry THEN componentRegistry[uid] ELSE NoComponent

(* the element for a block, or null: a block the catalog describes, handed *)
(* to the component registered for its uid                                 *)
renderUICPBlock(b, defs) ==
  IF b.uid \in Describes(defs.source) /\ Lookup(b.uid) # NoComponent
    THEN Lookup(b.uid)
    ELSE Null

placeholderMatch(part) == \E n \in 0..MaxLen : part = Placeholder(n)

blockIndex(part) == CHOOSE n \in 0..MaxLen : part = Placeholder(n)

(* what one part of the display content contributes to the result *)
RenderPart(part) ==
  IF placeholderMatch(part)
    THEN IF /\ blockIndex(part) < Len(parserState.completedBlocks)
            /\ loadedDefinitions.has
            /\ renderUICPBlock(parserState.completedBlocks[blockIndex(part) + 1],
                               loadedDefinitions) # Null
           THEN <<[kind |-> "component",
                   of |-> renderUICPBlock(parserState.completedBlocks[blockIndex(part) + 1],
                                          loadedDefinitions)]>>
           ELSE <<>>
    ELSE IF part # Ws THEN <<[kind |-> "text", of |-> part]>> ELSE <<>>

RECURSIVE RenderParts(_)
RenderParts(parts) ==
  IF parts = <<>> THEN <<>> ELSE RenderPart(Head(parts)) \o RenderParts(Tail(parts))

(* isStreaming && (parserState.isInUICPBlock || parserState.hasPendingBlock) *)
ShowsSpinner == isStreaming /\ (parserState.isInUICPBlock \/ parserState.hasPendingBlock)

(* the nodes the component renders *)
renderedContent ==
  RenderParts(parserState.displayContent)
    \o (IF ShowsSpinner THEN <<[kind |-> "spinner", of |-> ""]>> ELSE <<>>)

ViewChunks == {<<"x">>, GoodBlock}

NewContent == \E chunk \in ViewChunks : ContentChanges(chunk)

Timeout == \E t \in timers : TimerFires(t)

NewDefinitions == \E d \in DefinitionsProps : DefinitionsChange(d)

Loaded == \E i \in DOMAIN fetches : FetchResolves(i)

LoadFailed == \E i \in DOMAIN fetches : FetchRejects(i)

ViewNext ==
  \/ NewContent
  \/ Timeout
  \/ NewDefinitions
  \/ Loaded
  \/ LoadFailed
  \/ Unmounts

ViewSpec == ViewInit /\ [][ViewNext]_vars

(* a timer that is pending fires: the event loop runs every timer that is  *)
(* not cleared                                                             *)
FairViewSpec == ViewSpec /\ WF_vars(Timeout)

(* ---------------------------- reading the text ------------------------- *)

Range(seq) == {seq[k] : k \in 1..Len(seq)}

TickFree(t) == Tick \notin Range(t)

IsPrefix(a, b) == Len(a) <= Len(b) /\ SubSeq(b, 1, Len(a)) = a

Last(seq) == seq[Len(seq)]

FenceAt(t, k) == k >= 1 /\ k + 2 <= Len(t) /\ SubSeq(t, k, k + 2) = Fence

OpensAt(t, k) == k >= 1 /\ k + 7 <= Len(t) /\ SubSeq(t, k, k + 7) = OpenLine

HasFence(t) == \E k \in 1..Len(t) : FenceAt(t, k)

(* three backticks immediately followed by the tag *)
HasTaggedFence(t) ==
  \E k \in 1..Len(t) : k + 6 <= Len(t) /\ SubSeq(t, k, k + 6) = Fence \o Tag

(* least index >= from where an opening line / a fence starts, 0 if none *)
NextOpen(t, from) ==
  IF \E k \in from..Len(t) : OpensAt(t, k)
  THEN CHOOSE k \in from..Len(t) :
         OpensAt(t, k) /\ \A j \in from..(k - 1) : ~OpensAt(t, j)
  ELSE 0

NextFence(t, from) ==
  IF \E k \in from..Len(t) : FenceAt(t, k)
  THEN CHOOSE k \in from..Len(t) :
         FenceAt(t, k) /\ \A j \in from..(k - 1) : ~FenceAt(t, j)
  ELSE 0

(* The complete blocks of a text by the wire syntax: an opening line, a    *)
(* body up to the first run of three backticks, that run.  Blocks do not   *)
(* nest or overlap.  open is the index of the first backtick, close the    *)
(* index of the last.                                                      *)
RECURSIVE TextBlocks(_, _)
TextBlocks(t, from) ==
  LET k == NextOpen(t, from)
      e == NextFence(t, k + 8)
  IN  IF k = 0 \/ e = 0 THEN <<>>
      ELSE <<[open |-> k, close |-> e + 2]>> \o TextBlocks(t, e + 3)

(* index of the opening line of the block the text ends inside, 0 if none *)
RECURSIVE OpenBlock(_, _)
OpenBlock(t, from) ==
  LET k == NextOpen(t, from)
      e == NextFence(t, k + 8)
  IN  IF k = 0 THEN 0
      ELSE IF e = 0 THEN k
      ELSE OpenBlock(t, e + 3)

BodyOf(t, b) == SubSeq(t, b.open + 8, b.close - 3)

ParsedBody(body) == JSONparse(trim(body))

Parses(body) == ~ParsedBody(body).throws /\ HasShape(ParsedBody(body))

WellFormed(t, b) == Parses(BodyOf(t, b))

PreBodyStages == {"backtick1", "backtick2", "backtick3", "u", "ui", "uic", "uicp"}

BodyStages == {"in_block", "closing1", "closing2"}

(* input positions whose character the step from s on character i of the  *)
(* text appends to displayContent                                          *)
ShownBy(s, i, char) ==
  IF s.stage = "none" THEN (IF char = Tick THEN {} ELSE {i})
  ELSE IF s.stage \in PreBodyStages
       THEN (IF ProcessChar(s, char).stage = "none"
             THEN (i - Len(s.buffer))..i ELSE {})
  ELSE IF s.stage = "closing3" THEN (IF char = Tick THEN {} ELSE {i})
  ELSE {}

Shown(t) ==
  LET tr == Trace(t)
  IN  UNION {ShownBy(tr[i], i, t[i]) : i \in 1..Len(t)}

(* the input positions shown so far *)
ShownSoFar ==
  UNION {ShownBy(trace[i], i, content[i]) : i \in 1..Len(content)}

(* trace is the trace of the scan of the text so far *)
TraceIsScan == trace = Trace(content) /\ Last(trace) = Machine(content)

Placeholders == {Placeholder(n) : n \in 0..MaxLen}

(* displayContent holds the shown input characters and the placeholders *)
ShownAccountsForDisplay ==
  Len(parserState.displayContent) =
    Cardinality(Shown(content)) +
    Cardinality({k \in 1..Len(parserState.displayContent) :
                   parserState.displayContent[k] \in Placeholders})

(* ---------------------------- claims ----------------------------------- *)

(* a partial block start: backticks, or three or more backticks followed   *)
(* by u, ui or uic                                                         *)
IsPartialStart(b) ==
  \E n \in 1..Len(b) :
    /\ \A k \in 1..n : b[k] = Tick
    /\ Len(b) - n < Len(Tag)
    /\ SubSeq(b, n + 1, Len(b)) = SubSeq(Tag, 1, Len(b) - n)
    /\ (Len(b) > n => n >= 3)

(* C1 as stated: a text with no fence-tagged sequence is displayed         *)
(* exactly, with no completed block and nothing pending.                   *)
C1_PlainTextPassesThrough ==
  ~HasTaggedFence(content) =>
    /\ parserState.displayContent = content
    /\ parserState.completedBlocks = <<>>
    /\ ~parserState.hasPendingBlock

(* C1 amended: for a text with no fence-tagged sequence no block is        *)
(* completed and displayContent followed by buffer is the text exactly;    *)
(* hasPendingBlock is true exactly when buffer is not empty, and buffer    *)
(* is then a partial block start; a text with no backtick is displayed     *)
(* exactly with nothing pending.                                           *)
C1_PlainTextShownOrHeld ==
  ~HasTaggedFence(content) =>
    /\ parserState.completedBlocks = <<>>
    /\ parserState.displayContent \o parserState.buffer = content
    /\ parserState.hasPendingBlock <=> (parserState.buffer # <<>>)
    /\ parserState.buffer # <<>> => IsPartialStart(parserState.buffer)
    /\ ~parserState.isInUICPBlock
    /\ TickFree(content) =>
         (parserState.displayContent = content /\ ~parserState.hasPendingBlock)

C1_Witness ==
  /\ ~HasTaggedFence(content)
  /\ Tick \in Range(parserState.displayContent)
  /\ Len(parserState.buffer) >= 4
  /\ parserState.hasPendingBlock

(* C2: no character of a well-formed block of the text is in               *)
(* displayContent.                                                         *)
C2_NoBlockTextShown ==
  LET bs == TextBlocks(content, 1)
      shown == ShownSoFar
  IN  \A n \in 1..Len(bs) :
        WellFormed(content, bs[n]) =>
          shown \cap (bs[n].open..bs[n].close) = {}

(* number of well-formed blocks among the first n blocks of bs *)
WellFormedUpTo(t, bs, n) ==
  Cardinality({m \in 1..n : WellFormed(t, bs[m])})

(* a body prefix that some JSON body with uid and data continues *)
ExtendableBody(b) ==
  LET tb == TrimStart(b)
  IN  \/ tb = <<>>
      \/ tb[1] = "Q" /\ \A j \in 2..Len(tb) : tb[j] \in StringChars
      \/ tb[1] = "G" /\ \A j \in 2..Len(tb) : tb[j] = Ws

(* C3: a text that ends inside the body of a block that can still become   *)
(* well-formed has hasPendingBlock true and no entry for that block.       *)
C3_PendingInsideBody ==
  LET k == OpenBlock(content, 1)
      bs == TextBlocks(content, 1)
  IN  (k # 0 /\ ExtendableBody(SubSeq(content, k + 8, Len(content)))) =>
        /\ parserState.hasPendingBlock
        /\ Len(parserState.completedBlocks) <= WellFormedUpTo(content, bs, Len(bs))

(* C4: when the text ends with the third backtick of a well-formed         *)
(* block's closing fence, the block is in completedBlocks, its placeholder *)
(* ends displayContent and nothing is pending.                             *)
C4_CompleteAtThirdBacktick ==
  LET bs == TextBlocks(content, 1)
  IN  (bs # <<>> /\ Last(bs).close = Len(content) /\ WellFormed(content, Last(bs))) =>
        /\ ~parserState.hasPendingBlock
        /\ parserState.completedBlocks # <<>>
        /\ Last(parserState.completedBlocks) =
             UICPBlock(ParsedBody(BodyOf(content, Last(bs))))
        /\ parserState.displayContent # <<>>
        /\ Last(parserState.displayContent) =
             Placeholder(Len(parserState.completedBlocks) - 1)

(* index where the last fence of the text starts, 0 if none *)
LastFence(t) ==
  IF HasFence(t)
  THEN CHOOSE k \in 1..Len(t) :
         FenceAt(t, k) /\ \A j \in (k + 1)..Len(t) : ~FenceAt(t, j)
  ELSE 0

(* the text is P + opening line + body + fence + S with the opening line   *)
(* at k and the closing fence at e, P and S without backtick, S not empty  *)
(* and body a JSON text with uid and data                                  *)
C5Shape(t, k, e) ==
  /\ OpensAt(t, k)
  /\ e >= k + 8
  /\ FenceAt(t, e)
  /\ e + 3 <= Len(t)
  /\ TickFree(SubSeq(t, 1, k - 1))
  /\ TickFree(SubSeq(t, e + 3, Len(t)))
  /\ IsJSON(SubSeq(t, k + 8, e - 1))
  /\ HasShape(JSONparse(SubSeq(t, k + 8, e - 1)))

C5Result(t, k, e) ==
  /\ parserState.displayContent =
       SubSeq(t, 1, k - 1) \o <<Placeholder(0)>> \o SubSeq(t, e + 3, Len(t))
  /\ parserState.completedBlocks =
       <<UICPBlock(JSONparse(SubSeq(t, k + 8, e - 1)))>>
  /\ ~parserState.hasPendingBlock

(* C5 as stated: P + block + S yields P + placeholder 0 + S, the parsed    *)
(* body as the only completed block and nothing pending.  (P without       *)
(* backtick makes the opening line the first of the text, S without        *)
(* backtick makes the closing fence the last.)                             *)
C5_BlockReplacedByPlaceholder ==
  LET k == NextOpen(content, 1)
      e == LastFence(content)
  IN  C5Shape(content, k, e) => C5Result(content, k, e)

(* C5 amended: the same for a body that holds no run of three backticks.   *)
C5_FenceFreeBlockReplaced ==
  LET k == NextOpen(content, 1)
      e == LastFence(content)
  IN  (C5Shape(content, k, e) /\ ~HasFence(SubSeq(content, k + 8, e - 1))) =>
        C5Result(content, k, e)

C5_Witness ==
  LET k == NextOpen(content, 1)
      e == LastFence(content)
  IN  /\ k >= 2
      /\ C5Shape(content, k, e)
      /\ ~HasFence(SubSeq(content, k + 8, e - 1))
      /\ Len(parserState.completedBlocks) = 1

(* index of the whitespace that opened the block being closed at step i *)
BlockStart(tr, i) ==
  CHOOSE j \in 1..i : tr[j].stage = "uicp" /\ \A m \in (j + 1)..i : tr[m].stage # "uicp"

(* steps at which the machine, in closing3, drops a body that lacks the    *)
(* minimal shape                                                           *)
DropSteps(t, tr) ==
  {i \in 1..Len(t) : tr[i].stage = "closing3" /\ ~Parses(tr[i].blockContent)}

C7_LaterBlockEmitted ==
  LET bs == TextBlocks(content, 1)
  IN  \A n \in 1..Len(bs) :
        ( /\ WellFormed(content, bs[n])
          /\ bs[n].close < Len(content)
          /\ \E m \in 1..(n - 1) : ~WellFormed(content, bs[m]) ) =>
          LET ord == WellFormedUpTo(content, bs, n)
          IN  /\ Len(parserState.completedBlocks) >= ord
              /\ parserState.completedBlocks[ord] =
                   UICPBlock(ParsedBody(BodyOf(content, bs[n])))
              /\ Placeholder(ord - 1) \in Range(parserState.displayContent)

(* a state left by calls on another text *)
OtherState == parseStreamingContent(GoodBlock \o <<"x", Tick>>)

C9_ResumeEqualsRescan ==
  \A k \in 1..(Len(content) - 1) :
    LET first == processStreamingContent(createStreamingParserState,
                                         SubSeq(content, 1, k))
        second == processStreamingContent(first,
                                          SubSeq(content, k + 1, Len(content)))
    IN  /\ second.displayContent = parserState.displayContent
        /\ second.completedBlocks = parserState.completedBlocks
        /\ second.hasPendingBlock = parserState.hasPendingBlock

(* C10: completedBlocks of a text is a prefix of completedBlocks of every  *)
(* extension of it.                                                        *)
C10_CompletedBlocksStable ==
  [][IsPrefix(parserState.completedBlocks, parserState'.completedBlocks)]_vars

C10_Witness ==
  /\ Len(parserState.completedBlocks) = 2
  /\ parserState.completedBlocks[1] # parserState.completedBlocks[2]

(* the characters that continue a block start at a pre-body stage; every   *)
(* other character is a mismatch                                           *)
Continues(stage) ==
  CASE stage \in {"backtick1", "backtick2"} -> {Tick}
    [] stage = "backtick3" -> {Tick, "u"}
    [] stage = "u"         -> {"i"}
    [] stage = "ui"        -> {"c"}
    [] stage = "uic"       -> {"p"}
    [] stage = "uicp"      -> {Ws}

(* steps at which a pre-body stage meets a mismatching character *)
MismatchSteps(t, tr) ==
  {i \in 1..Len(t) :
     tr[i].stage \in PreBodyStages /\ t[i] \notin Continues(tr[i].stage)}

(* index of the character that took the machine out of none before step i *)
StartOf(tr, i) ==
  CHOOSE j \in 1..i : tr[j].stage = "none" /\ \A m \in (j + 1)..i : tr[m].stage # "none"

(* C11: a mismatching character at a pre-body stage appends the whole      *)
(* buffer and the character to displayContent, empties the buffer and      *)
(* returns to none; the buffer is the input since the block start began,   *)
(* so every character of the false start is displayed, in place.           *)
C11_FalseStartReleased ==
  LET tr == trace
      shown == ShownSoFar
  IN  \A i \in MismatchSteps(content, tr) :
        LET j == StartOf(tr, i)
        IN  /\ tr[i].buffer = SubSeq(content, j, i - 1)
            /\ tr[i + 1].displayContent =
                 tr[i].displayContent \o tr[i].buffer \o <<content[i]>>
            /\ tr[i + 1].displayContent =
                 tr[j].displayContent \o SubSeq(content, j, i)
            /\ tr[i + 1].buffer = <<>>
            /\ tr[i + 1].stage = "none"
            /\ (j..i) \subseteq shown

(* three backticks and uicp followed by a character other than whitespace  *)
C11_Witness ==
  LET tr == trace
  IN  /\ \E i \in MismatchSteps(content, tr) :
           tr[i].stage = "uicp" /\ tr[i].buffer = TaggedFence /\ i = Len(content)
      /\ IsPrefix(TaggedFence, parserState.displayContent)

(* states of the trace in which three closing backticks have been read *)
ClosingSteps(tr) == {i \in 1..Len(tr) : tr[i].stage = "closing3"}

(* the input between the whitespace that opened the block (index j) and    *)
(* the three backticks read before state i of the trace                    *)
InputBody(t, j, i) == SubSeq(t, j + 1, i - 4)

(* C12 as stated: the text handed to the JSON parse is exactly the input   *)
(* between the whitespace after the tag and the first run of three         *)
(* backticks after it.                                                     *)
C12_BodyParsedExactly ==
  LET tr == trace
  IN  \A i \in ClosingSteps(tr) :
        LET j == BlockStart(tr, i)
        IN  /\ NextFence(content, j + 1) = i - 3
            /\ ParseInput(tr[i]) = InputBody(content, j, i)

(* C12 amended: the accumulated body is exactly that input, backticks      *)
(* included verbatim and in place, and the text handed to the JSON parse   *)
(* is that body with leading and trailing whitespace removed.              *)
C12_BodyIsInputThenTrimmed ==
  LET tr == trace
  IN  \A i \in ClosingSteps(tr) :
        LET j == BlockStart(tr, i)
        IN  /\ content[j] = Ws
            /\ SubSeq(content, j - 7, j - 1) = TaggedFence
            /\ NextFence(content, j + 1) = i - 3
            /\ tr[i].blockContent = InputBody(content, j, i)
            /\ ParseInput(tr[i]) = trim(InputBody(content, j, i))

C12_Witness ==
  LET tr == trace
  IN  \E i \in ClosingSteps(tr) :
        /\ i <= Len(content)
        /\ \E k \in 2..(Len(tr[i].blockContent) - 1) :
             /\ tr[i].blockContent[k] = Tick
             /\ tr[i].blockContent[k + 1] = Tick
             /\ tr[i].blockContent[k - 1] # Tick
        /\ ParseInput(tr[i]) # tr[i].blockContent
        /\ Parses(tr[i].blockContent)
        /\ Len(tr[i + 1].completedBlocks) = Len(tr[i].completedBlocks) + 1

(* indices at which an opening line starts while the machine is inside the *)
(* body of an open block                                                   *)
NestedOpenings(t, tr) ==
  {k \in 1..Len(t) : OpensAt(t, k) /\ tr[k].stage = "in_block"}

(* C13: an opening line inside the body of an open block is body content   *)
(* of that block: after it the outer block is still open with the opening  *)
(* line in its body, no block has been completed by it, and none of its    *)
(* characters is in displayContent.                                        *)
C13_NestedOpeningIsBody ==
  LET tr == trace
      shown == ShownSoFar
  IN  \A k \in NestedOpenings(content, tr) :
        /\ tr[k + 8].stage = "in_block"
        /\ tr[k + 8].blockContent = tr[k].blockContent \o OpenLine
        /\ tr[k + 8].completedBlocks = tr[k].completedBlocks
        /\ shown \cap (k..(k + 7)) = {}

(* steps at which the machine, in closing3, completes a block *)
CompletingSteps(t, tr) ==
  {i \in 1..Len(t) : tr[i].stage = "closing3" /\ Parses(tr[i].blockContent)}

IsPlaceholder(e) == e \in Placeholders

(* C14: completedBlocks lists the completed blocks in the order of their   *)
(* closing fences; the step that stores a block at index k appends the     *)
(* placeholder with ordinal k, so the placeholders the extractor appends   *)
(* are those of ordinals 0, 1, ... in this order, one per completed block; *)
(* every other step appends nothing but characters of the input.           *)
C14_PlaceholdersFollowBlocks ==
  LET tr == trace
      cs == CompletingSteps(content, tr)
  IN  /\ Len(parserState.completedBlocks) = Cardinality(cs)
      /\ \A i \in cs :
           LET n == Cardinality({m \in cs : m <= i})
               shownChar == IF content[i] = Tick THEN <<>> ELSE <<content[i]>>
           IN  /\ Len(tr[i].completedBlocks) = n - 1
               /\ parserState.completedBlocks[n] =
                    UICPBlock(ParsedBody(tr[i].blockContent))
               /\ tr[i + 1].displayContent =
                    tr[i].displayContent \o <<Placeholder(n - 1)>> \o shownChar
      /\ \A i \in (1..Len(content)) \ cs :
           LET d == tr[i].displayContent
               e == tr[i + 1].displayContent
           IN  /\ IsPrefix(d, e)
               /\ \A k \in (Len(d) + 1)..Len(e) :
                    e[k] \in Range(SubSeq(content, 1, i))

C14_Witness ==
  /\ Len(parserState.completedBlocks) = 2
  /\ \E a, b \in 1..Len(parserState.displayContent) :
       /\ a + 1 < b
       /\ parserState.displayContent[a] = Placeholder(0)
       /\ parserState.displayContent[b] = Placeholder(1)

(* the stage the machine is in after the text so far *)
FinalStage == Last(trace).stage

(* C15: hasPendingBlock is true exactly when the stage is not none;        *)
(* isInUICPBlock is true exactly when the stage is in_block or a closing   *)
(* stage; so isInUICPBlock implies hasPendingBlock.                        *)
C15_FlagsFollowStage ==
  LET stage == FinalStage
  IN  /\ parserState.hasPendingBlock <=> (stage # "none")
      /\ parserState.isInUICPBlock <=>
           (stage \in {"in_block", "closing1", "closing2", "closing3"})
      /\ parserState.isInUICPBlock => parserState.hasPendingBlock
      /\ (parserState.hasPendingBlock /\ ~parserState.isInUICPBlock) <=>
           (stage \in PreBodyStages)

C15_Witness ==
  /\ FinalStage = "closing3"
  /\ parserState.isInUICPBlock
  /\ parserState.hasPendingBlock
  /\ parserState.completedBlocks # <<>>

(* what the step from state s to state n does with the character it reads *)
GoesToDisplay(s, n, char) ==
  /\ Len(n.displayContent) > Len(s.displayContent)
  /\ Last(n.displayContent) = char

(* held as part of a block start: appended to the buffer, or the           *)
(* whitespace that ends the opening line                                   *)
GoesToBlockStart(s, n, char) ==
  \/ n.buffer = Append(s.buffer, char)
  \/ s.stage = "uicp" /\ n.stage = "in_block"

GoesToBody(s, n, char) ==
  /\ s.stage \in BodyStages
  /\ n.stage = "in_block"
  /\ Len(n.blockContent) > Len(s.blockContent)
  /\ Last(n.blockContent) = char

GoesToClosing(s, n, char) ==
  /\ char = Tick
  /\ <<s.stage, n.stage>> \in {<<"in_block", "closing1">>,
                                <<"closing1", "closing2">>,
                                <<"closing2", "closing3">>}

ClassesOf(s, n, char) ==
  {c \in {"display", "start", "body", "closing"} :
     \/ c = "display" /\ GoesToDisplay(s, n, char)
     \/ c = "start"   /\ GoesToBlockStart(s, n, char)
     \/ c = "body"    /\ GoesToBody(s, n, char)
     \/ c = "closing" /\ GoesToClosing(s, n, char)}

(* C16: every character read goes to exactly one of displayContent, the    *)
(* pending block start, the block body, or the closing delimiter.          *)
C16_EveryCharClassified ==
  LET tr == trace
  IN  \A i \in 1..Len(content) :
        Cardinality(ClassesOf(tr[i], tr[i + 1], content[i])) = 1

Validated == validation # NoValidation

CatalogIds == {definitions.components[k].uid : k \in 1..Len(definitions.components)}

SchemaFailures == {"MissingField", "TypeMismatch", "InvalidEnumValue"}

(* C17: a block whose component id is not in the catalog fails with one    *)
(* unknown-component failure that names the id and lists every id of the   *)
(* catalog, and with no schema failure.                                    *)
C17_UnknownComponentFails ==
  (Validated /\ block.uid \notin CatalogIds) =>
    /\ ~validation.valid
    /\ Len(validation.errors) = 1
    /\ validation.errors[1].kind = "UnknownComponent"
    /\ validation.errors[1].field = block.uid
    /\ Len(validation.errors[1].known) = Len(definitions.components)
    /\ Range(validation.errors[1].known) = CatalogIds
    /\ \A k \in 1..Len(validation.errors) :
         validation.errors[k].kind \notin SchemaFailures

C17_Witness ==
  /\ Validated
  /\ block.uid = "UnknownCard"
  /\ block.data = NoInputs
  /\ CatalogIds = {"SimpleCard", "Alert"}
  /\ validation.errors[1].known = <<"SimpleCard", "Alert">>

(* the constraints of the schema inputs that the map d violates, each as   *)
(* the pair of its kind and the path of its field; nested is the set of    *)
(* violations found inside object-valued fields                            *)
ViolationsAt(inputs, d, path) ==
  {<<"MissingField", path \o n>> :
     n \in {m \in DOMAIN inputs :
              m \notin DOMAIN d /\ inputs[m].required /\ ~inputs[m].hasDefault}}
  \cup
  {<<"TypeMismatch", path \o n>> :
     n \in {m \in DOMAIN inputs \cap DOMAIN d : d[m].kind # inputs[m].type}}
  \cup
  {<<"InvalidEnumValue", path \o n>> :
     n \in {m \in DOMAIN inputs \cap DOMAIN d :
              inputs[m].hasEnum /\ Literal(d[m]) \notin inputs[m].enumValues}}

ObjectFields(inputs, d) ==
  {m \in DOMAIN inputs \cap DOMAIN d :
     inputs[m].type = "object" /\ d[m].kind = "object"}

Violations(inputs, d) ==
  ViolationsAt(inputs, d, "") \cup
  UNION {ViolationsAt(inputs[m].properties, d[m].props, m \o ".") :
           m \in ObjectFields(inputs, d)}

BlockInputs == FindComponent(definitions, block.uid).inputs

(* C18: for a block with a known component the failure list holds exactly  *)
(* one entry per violated constraint (missing required field, type         *)
(* mismatch, invalid enum value), all of them and nothing else, and the    *)
(* block is valid exactly when the list is empty.                          *)
C18_EveryViolationCollected ==
  (Validated /\ block.uid \in CatalogIds) =>
    LET errs == validation.errors
        violated == Violations(BlockInputs, block.data)
    IN  /\ {<<errs[k].kind, errs[k].field>> : k \in 1..Len(errs)} = violated
        /\ Len(errs) = Cardinality(violated)
        /\ validation.valid <=> (errs = <<>>)
        /\ validation.valid <=> (violated = {})

C18_Witness ==
  /\ Validated
  /\ block.uid = "SimpleCard"
  /\ Len(validation.errors) = 3
  /\ {validation.errors[k].kind : k \in 1..3} = SchemaFailures
  /\ {validation.errors[k].field : k \in 1..3} = {"title.inner", "type"}

MissingReported(field) ==
  \E k \in 1..Len(validation.errors) :
    /\ validation.errors[k].kind = "MissingField"
    /\ validation.errors[k].field = field

(* the payload without the fields the schema does not declare *)
DeclaredOnly(inputs, d) == [n \in DOMAIN d \cap DOMAIN inputs |-> d[n]]

(* C19: a field is reported missing exactly when the schema declares it    *)
(* required without default and the payload lacks it (also inside an       *)
(* object-valued field); no failure names a field the schema does not      *)
(* declare, and the result is the same without the undeclared fields.      *)
C19_MissingFieldExactly ==
  (Validated /\ block.uid \in CatalogIds) =>
    LET inputs == BlockInputs
        d == block.data
    IN  /\ \A n \in DOMAIN inputs \cup DOMAIN d :
             MissingReported(n) <=>
               /\ n \in DOMAIN inputs
               /\ inputs[n].required
               /\ ~inputs[n].hasDefault
               /\ n \notin DOMAIN d
        /\ \A m \in ObjectFields(inputs, d) :
             \A n \in DOMAIN inputs[m].properties \cup DOMAIN d[m].props :
               MissingReported(m \o "." \o n) <=>
                 /\ n \in DOMAIN inputs[m].properties
                 /\ inputs[m].properties[n].required
                 /\ ~inputs[m].properties[n].hasDefault
                 /\ n \notin DOMAIN d[m].props
        /\ \A k \in 1..Len(validation.errors) :
             validation.errors[k].field \in
               DOMAIN inputs \cup
               {m \o "." \o n : m \in ObjectFields(inputs, d), n \in {"inner"}}
        /\ validation =
             validateUICPBlock([block EXCEPT !.data = DeclaredOnly(inputs, d)],
                               definitions)

(* valid although a required field with a default and an optional field    *)
(* are absent and an undeclared field is present                           *)
C19_Witness ==
  /\ Validated
  /\ block.uid = "SimpleCard"
  /\ block.uid \in CatalogIds
  /\ DOMAIN block.data = {"extra"}
  /\ DOMAIN BlockInputs = {"title", "type"}
  /\ BlockInputs["title"].required /\ BlockInputs["title"].hasDefault
  /\ ~BlockInputs["type"].required
  /\ validation.valid

(* a step in which a call to loadDefinitionsWithCache is made *)
CallMade == nCalls' = nCalls + 1

(* the call made in this step started an underlying load for caller c *)
LoadIssued(c) == CallMade /\ calls[c].pc = "idle" /\ calls'[c].pc = "loading"

(* the call made in this step returned without awaiting *)
ReturnedAtOnce == CallMade /\ calls' = calls /\ returned'.source \in Sources

(* the load awaited by caller c resolved in this step *)
LoadResolved(c) ==
  calls[c].pc = "loading" /\ calls'[c].pc = "idle" /\ returned'.kind = "data"

Age(source) == now - definitionsCache[source].timestamp

(* C20: a call made less than ttl after the entry of its source was stored *)
(* returns the cached catalog, issues no load and leaves the cache as it   *)
(* is; a call made ttl or more after it was stored (or with no entry)      *)
(* issues a new underlying load, and when that load resolves the entry is  *)
(* replaced by the new catalog with the time of that moment.               *)
C20_CachedUntilTtl ==
  [][ /\ ReturnedAtOnce =>
           LET s == returned'.source
           IN  /\ definitionsCache[s].has
               /\ Age(s) < returned'.ttl
               /\ returned'.kind = "data"
               /\ returned'.data = definitionsCache[s].data
               /\ loads' = loads
               /\ definitionsCache' = definitionsCache
      /\ \A c \in Callers :
           /\ LoadIssued(c) =>
                LET s == calls'[c].source
                IN  /\ ~definitionsCache[s].has \/ Age(s) >= calls'[c].ttl
                    /\ loads' = Append(loads, s)
                    /\ calls'[c].load = Len(loads')
                    /\ definitionsCache' = definitionsCache
           /\ LoadResolved(c) =>
                /\ definitionsCache'[calls[c].source] = Entry(calls[c].load, now)
                /\ returned'.data = calls[c].load
                /\ \A s \in Sources \ {calls[c].source} :
                     definitionsCache'[s] = definitionsCache[s]
    ]_vars

(* one caller: a load, a second call answered from the cache, and a third  *)
(* call, made ttl after the entry was stored, whose load is in flight      *)
C20_Witness ==
  /\ nCalls = 3
  /\ loads = <<"a.json", "a.json">>
  /\ returned = Return(1, "a.json", ShortTtl, "data", 1, TRUE)
  /\ calls[1] = [pc |-> "loading", source |-> "a.json", ttl |-> ShortTtl, load |-> 2]
  /\ calls[2] = IdleCall
  /\ definitionsCache["a.json"].has
  /\ definitionsCache["a.json"].data = 1
  /\ Age("a.json") = ShortTtl

(* caller c awaits an underlying load of source for a call with ttl > 0 *)
Awaits(c, source) ==
  calls[c].pc = "loading" /\ calls[c].source = source /\ calls[c].ttl > 0

(* C21: a call with ttl > 0 made for a source while the underlying load of *)
(* an earlier call with ttl > 0 for the same source has not yet resolved   *)
(* issues no underlying load of its own: one load serves both calls.       *)
C21_OverlappingCallsShareLoad ==
  [][ \A c \in Callers :
        LoadIssued(c) /\ calls'[c].ttl > 0 =>
          ~\E d \in Callers \ {c} : Awaits(d, calls'[c].source)
    ]_vars

(* C22: with ttl = 0 every call issues an underlying load, whatever entry  *)
(* the cache holds for the source and however recently it was stored: no   *)
(* call with ttl = 0 is answered from the cache.                           *)
C22_ZeroTtlAlwaysLoads ==
  [][ /\ ReturnedAtOnce => returned'.ttl # 0
      /\ \A c \in Callers :
           LoadIssued(c) /\ calls'[c].ttl = 0 =>
             /\ loads' = Append(loads, calls'[c].source)
             /\ definitionsCache' = definitionsCache
    ]_vars

(* a load resolved and stored its entry, and a call with ttl = 0 made at   *)
(* the same clock reading awaits a load of its own                         *)
C22_Witness ==
  /\ definitionsCache["a.json"] = Entry(1, now)
  /\ calls[1] = [pc |-> "loading", source |-> "a.json", ttl |-> 0, load |-> 2]
  /\ loads = <<"a.json", "a.json">>

(* clearDefinitionsCache returned in this step, called with this argument *)
ClearDone(source) ==
  /\ returned' = Return(0, source, 0, "void", Len(loads), FALSE)
  /\ calls' = calls /\ nCalls' = nCalls /\ now' = now

(* C23: clearDefinitionsCache(source) removes exactly the entry keyed by   *)
(* source and leaves every other entry as it is, for every source string;  *)
(* clearDefinitionsCache() removes all entries; and a call for a source    *)
(* that has no entry issues an underlying load.                            *)
C23_ClearRemovesExactly ==
  [][ /\ \A source \in Sources :
           ClearDone(source) =>
             /\ ~definitionsCache'[source].has
             /\ \A s \in Sources \ {source} :
                  definitionsCache'[s] = definitionsCache[s]
      /\ ClearDone(Undefined) => \A s \in Sources : ~definitionsCache'[s].has
      /\ ReturnedAtOnce => definitionsCache[returned'.source].has
    ]_vars

(* the load awaited by caller c rejected in this step *)
LoadRejected(c) ==
  calls[c].pc = "loading" /\ calls'[c].pc = "idle" /\ returned'.kind = "error"

(* C24: when the underlying load of a call fails, the failure is handed to *)
(* the caller of that call, no further load is issued for it, and the      *)
(* cache is left exactly as it was: no entry is created or refreshed.      *)
C24_FailurePropagates ==
  [][ \A c \in Callers :
        /\ calls[c].pc = "loading" /\ calls'[c].pc = "idle" =>
             returned'.caller = c /\ returned'.kind \in {"data", "error"}
        /\ LoadRejected(c) =>
             /\ returned' = Return(c, calls[c].source, calls[c].ttl, "error", 0, FALSE)
             /\ loads' = loads
             /\ definitionsCache' = definitionsCache
             /\ calls' = [calls EXCEPT ![c] = IdleCall]
    ]_vars

(* a load stored an entry; a later call with ttl = 0 for the same source   *)
(* had its load fail: its caller holds the error and the entry is the old  *)
(* one, neither removed nor refreshed                                      *)
C24_Witness ==
  /\ returned = Return(1, "a.json", 0, "error", 0, FALSE)
  /\ calls[1] = IdleCall
  /\ loads = <<"a.json", "a.json">>
  /\ definitionsCache["a.json"] = Entry(1, 0)
  /\ now > 0

(* a loadComponent call found its uid registered and returned in this step *)
ReturnedRegistered ==
  outcome'.op = "loadComponent" /\ loaders' = loaders /\ nImports' = nImports

(* a loadComponent call of loader l started a dynamic import in this step *)
ImportStarted(l) == loaders[l].pc = "idle" /\ loaders'[l].pc = "importing"

(* the dynamic import awaited by loader l ended in this step *)
ImportEnded(l) == loaders[l].pc = "importing" /\ loaders'[l].pc = "idle"

(* C25: after loadComponent(uid, path) has succeeded by on-demand          *)
(* resolution, every later loadComponent(uid, ...) made with no            *)
(* clearRegistry call in between returns the same handle, the one that     *)
(* resolution produced, and starts no on-demand resolution.                *)
C25_ResolvedHandleIsKept ==
  [][ resolved # NothingResolved =>
        /\ \A l \in Loaders : ImportStarted(l) => loaders'[l].uid # resolved.uid
        /\ ReturnedRegistered /\ outcome'.uid = resolved.uid =>
             outcome'.value = resolved.component
    ]_vars

(* C25, amended: after loadComponent(uid, path) has succeeded by on-demand *)
(* resolution, uid stays registered until the next clearRegistry call, and *)
(* every later loadComponent(uid, ...) made before it starts no on-demand  *)
(* resolution and returns the handle registered for uid at that moment.    *)
C25_ResolvedUidStaysRegistered ==
  [][ resolved # NothingResolved =>
        /\ IsTruthy(componentRegistry[resolved.uid])
        /\ \A l \in Loaders : ImportStarted(l) => loaders'[l].uid # resolved.uid
        /\ ReturnedRegistered /\ outcome'.uid = resolved.uid =>
             outcome'.value = componentRegistry[resolved.uid]
    ]_vars

(* the one import made so far registered f for Card, registerComponent     *)
(* replaced it by g, and a later loadComponent("Card", ...) returned g     *)
C25_Witness ==
  /\ resolved = Resolved("Card", "f")
  /\ nImports = 1
  /\ componentRegistry["Card"] = "g"
  /\ outcome = Outcome("loadComponent", "Card", "g")
  /\ \A l \in Loaders : loaders[l] = IdleLoader

C27_RegisteredWins ==
  [][ /\ \A l \in Loaders :
           ImportStarted(l) => componentRegistry[loaders'[l].uid] = NoComponent
      /\ ReturnedRegistered =>
           /\ outcome'.value = componentRegistry[outcome'.uid]
           /\ outcome'.value # NoComponent
           /\ componentRegistry' = componentRegistry
    ]_vars

(* registerComponent put f under Card, no import was ever started, and a   *)
(* loadComponent("Card", ...) returned f                                   *)
C27_Witness ==
  /\ componentRegistry["Card"] = "f"
  /\ nImports = 0
  /\ outcome = Outcome("loadComponent", "Card", "f")

(* registerComponent(uid, component) returned in this step *)
RegisterDone(uid, component) ==
  outcome' = Outcome("registerComponent", uid, component) /\ loaders' = loaders

(* C28: registerComponent(uid, handle) stores the handle whether or not    *)
(* uid had an entry: afterwards getComponent(uid) is that handle, and the  *)
(* entry of every other uid is as before.                                  *)
C28_RegisterStores ==
  [][ \A uid \in Uids, component \in Components :
        RegisterDone(uid, component) =>
          /\ componentRegistry'[uid] = component
          /\ \A other \in Uids \ {uid} :
               componentRegistry'[other] = componentRegistry[other]
    ]_vars

(* an import registered f under Card, and registerComponent("Card", g)     *)
(* replaced it while the entry of Alert stayed                             *)
C28_Witness ==
  /\ resolved = Resolved("Card", "f")
  /\ outcome = Outcome("registerComponent", "Card", "g")
  /\ componentRegistry["Card"] = "g"
  /\ componentRegistry["Alert"] = "f"

(* clearRegistry returned in this step, called with this argument *)
ClearRegistryDone(uid) ==
  outcome' = Outcome("clearRegistry", uid, NoComponent) /\ loaders' = loaders

(* C29: clearRegistry(uid) removes exactly the entry of uid and leaves     *)
(* every other entry as it is, for every uid string; clearRegistry()       *)
(* removes all entries; and no step other than a clearRegistry call        *)
(* removes an entry.                                                       *)
C29_ClearRemovesExactly ==
  [][ /\ \A uid \in Uids :
           ClearRegistryDone(uid) =>
             /\ componentRegistry'[uid] = NoComponent
             /\ \A other \in Uids \ {uid} :
                  componentRegistry'[other] = componentRegistry[other]
      /\ ClearRegistryDone(Undefined) =>
           \A uid \in Uids : componentRegistry'[uid] = NoComponent
      /\ outcome'.op # "clearRegistry" =>
           \A uid \in Uids :
             componentRegistry[uid] # NoComponent =>
               componentRegistry'[uid] # NoComponent
    ]_vars

(* pairs of blocks of the text, both well formed, the second starting      *)
(* directly after the closing fence of the first and followed by at least  *)
(* one more character                                                      *)
AdjacentBlocks(t) ==
  LET bs == TextBlocks(t, 1)
  IN  {k \in 1..(Len(bs) - 1) :
         /\ bs[k + 1].open = bs[k].close + 1
         /\ WellFormed(t, bs[k]) /\ WellFormed(t, bs[k + 1])
         /\ Len(t) > bs[k + 1].close}

(* C30: the character directly after a block's closing fence is processed  *)
(* as ordinary input from stage none: a character other than a backtick is *)
(* appended to displayContent, a backtick begins a new fence-open, so a    *)
(* second well-formed block that starts directly after the closing fence   *)
(* of the first is recognised and emitted as well.                         *)
C30_AfterFenceFromNone ==
  /\ \A i \in ClosingSteps(trace) \cap (1..Len(content)) :
       IF content[i] = Tick
       THEN trace[i + 1].stage = "backtick1" /\ trace[i + 1].buffer = <<Tick>>
       ELSE /\ trace[i + 1].stage = "none"
            /\ trace[i + 1].displayContent # <<>>
            /\ Last(trace[i + 1].displayContent) = content[i]
  /\ AdjacentBlocks(content) # {} => Len(parserState.completedBlocks) >= 2

(* steps of the trace that add a block to completedBlocks *)
AddingSteps ==
  {i \in 1..Len(content) :
     Len(trace[i + 1].completedBlocks) > Len(trace[i].completedBlocks)}

(* C33: a block is added to completedBlocks only if its body parses to a   *)
(* JSON object whose uid is a string and whose data is an object; a body   *)
(* whose uid or data has another type is dropped.                          *)
C33_OnlyTypedBlocksAdded ==
  \A i \in AddingSteps :
    LET parsed == ParsedBody(trace[i].blockContent)
    IN  /\ ~parsed.throws
        /\ parsed.uidType = "string"
        /\ parsed.dataType = "object"

(* how often the placeholder token of ordinal n occurs in displayContent,  *)
(* as the split of UICPContent finds it                                    *)
TokenCount(n) ==
  Cardinality({k \in 1..Len(parserState.displayContent) :
                 parserState.displayContent[k] = Placeholder(n)})

(* C34: every placeholder token in displayContent was appended by a block  *)
(* completion, plain input text never makes one appear: the tokens found   *)
(* in displayContent are those of ordinals 0 to k - 1, once each, where k  *)
(* is the length of completedBlocks, so that UICPContent renders each      *)
(* completed block exactly once.                                           *)
C34_TokensFromCompletions ==
  \A n \in 0..MaxLen :
    TokenCount(n) = IF n < Len(parserState.completedBlocks) THEN 1 ELSE 0

(* C39: displayContent only grows as the text grows: displayContent of a   *)
(* text is a prefix of displayContent of every extension of it, so what    *)
(* was shown is never retracted or altered by later input.                 *)
C39_DisplayOnlyGrows ==
  /\ \A i \in 1..Len(content) :
       IsPrefix(trace[i].displayContent, trace[i + 1].displayContent)
  /\ parserState.displayContent = Last(trace).displayContent

(* a text shown before a block, the block's placeholder and a character    *)
(* after it, with more input held back than shown                          *)
C39_Witness ==
  /\ Len(parserState.displayContent) >= 3
  /\ parserState.displayContent[1] = "x"
  /\ parserState.displayContent[2] = Placeholder(0)
  /\ Len(content) > Len(parserState.displayContent) + 10

(* C35: a handle stored by registerComponent(uid, h) is never replaced by  *)
(* the result of an on-demand resolution: when registerComponent(uid, h)   *)
(* was called while a loadComponent(uid, ...) was awaiting its import,     *)
(* getComponent(uid) is still h after that import has resolved.            *)
C35_RegisteredHandleSurvives ==
  [][ \A l \in Loaders :
        ( /\ ImportEnded(l)
          /\ outcome.op = "registerComponent"
          /\ outcome.uid = loaders[l].uid ) =>
          componentRegistry'[outcome.uid] = outcome.value
    ]_vars

(* the latest call to return was a clearDefinitionsCache that covered      *)
(* source, made after the load of caller c had started                     *)
ClearedSince(c) ==
  /\ returned.kind = "void"
  /\ ~Truthy(returned.source) \/ returned.source = calls[c].source
  /\ calls[c].load <= returned.data

(* C36: after clearDefinitionsCache(source) or clearDefinitionsCache() has *)
(* returned, the cache never again holds an entry for source fetched by a  *)
(* load that started before: a load that was in flight at the invalidation *)
(* does not repopulate the cache when it resolves.                         *)
C36_ClearedStaysCleared ==
  [][ \A c \in Callers :
        LoadResolved(c) /\ ClearedSince(c) =>
          ~definitionsCache'[calls[c].source].has
    ]_vars

(* C37: when two loads for one source overlap, the entry left after both   *)
(* have resolved holds the catalog of the load that started last: a load   *)
(* that started earlier and resolves later neither overwrites the newer    *)
(* catalog nor gives the older one a fresh timestamp.                      *)
C37_NewerCatalogStays ==
  [][ \A c \in Callers :
        LET s == calls[c].source
        IN  ( /\ LoadResolved(c)
              /\ definitionsCache[s].has
              /\ definitionsCache[s].data > calls[c].load ) =>
              definitionsCache'[s] = definitionsCache[s]
    ]_vars

(* C38: in UICPContent the result of a definitions load is applied only if *)
(* the load was started for the current definitions prop, by the latest    *)
(* run of the definitions effect, on a component that is still mounted.    *)
C38_AppliedLoadIsCurrent ==
  [][ \A i \in DOMAIN fetches :
        ( /\ fetches[i].pc = "pending"
          /\ fetches'[i].pc = "settled"
          /\ loadedDefinitions' = Catalog(fetches[i].source, i) ) =>
          /\ mounted
          /\ definitionsProp = StringProp(fetches[i].source)
          /\ i = Len(fetches)
    ]_vars

(* the second load was applied after the first, for another source, had    *)
(* settled                                                                 *)
C38_Witness ==
  /\ Len(fetches) = 2
  /\ fetches[1].source # fetches[2].source
  /\ fetches[1].pc = "settled"
  /\ loadedDefinitions = Catalog(fetches[2].source, 2)

(* C32: isStreaming is true after every change of the content prop; while  *)
(* the component stays mounted it becomes false again once the content has *)
(* stopped changing; it is set false only by the timer the latest content  *)
(* change started; and at most one timer is pending.                       *)
C32_StreamingFollowsContent ==
  /\ [][content' # content => isStreaming']_vars
  /\ [][(isStreaming /\ ~isStreaming') =>
          (streamingTimeoutRef \in timers /\ streamingTimeoutRef \notin timers')]_vars
  /\ [](Cardinality(timers) <= 1)
  /\ (mounted /\ isStreaming) ~> (~isStreaming \/ ~mounted)

(* the content changed twice and the second timer has fired *)
C32_Witness ==
  /\ mounted
  /\ nTimers >= 2
  /\ timers = {}
  /\ ~isStreaming

(* the text is one well-formed block, after plain text or none *)
OneBlockArrived ==
  \E k \in 0..MaxPieces : content = [i \in 1..k |-> "x"] \o GoodBlock

ShowsComponent ==
  \E n \in 1..Len(renderedContent) : renderedContent[n].kind = "component"

(* nothing is left that changes the view unless new content arrives *)
Settled ==
  /\ timers = {}
  /\ \A i \in DOMAIN fetches : fetches[i].pc = "settled"

(* C31: once the complete text of a well-formed block has arrived, with    *)
(* the definitions loaded and the block's component registered, and no     *)
(* further content arrives, the view does not settle showing neither the   *)
(* block's component nor the loading spinner.                              *)
C31_BlockOrSpinnerShown ==
  ( /\ mounted
    /\ OneBlockArrived
    /\ loadedDefinitions.has
    /\ "Card" \in Describes(loadedDefinitions.source)
    /\ Lookup("Card") # NoComponent
    /\ Settled ) =>
    (ShowsComponent \/ ShowsSpinner)

====
